---------------------------- MODULE Spec2Model ----------------------------
(***************************************************************************)
(* A model of the command-argument variables of gide (src/argvars.go) and  *)
(* of the places of src/gide/gide.go that rebuild and use them.            *)
(*                                                                         *)
(* Strings are sequences of one-character strings, so that the byte-level  *)
(* scanning of BindArgVars and of the path/filepath functions is modelled  *)
(* position by position.  Go's zero-based indices are kept: the byte at Go *)
(* index k of a string s is s[k+1].                                        *)
(***************************************************************************)
EXTENDS Integers, Sequences, FiniteSets, TLC

(***************************************************************************)
(* Bounds of the model.                                                    *)
(***************************************************************************)
\* longest argument template, counted in pieces of TemplatePieces
MaxPieces == 3

(***************************************************************************)
(* Byte-string helpers (Go: bytes.Index, strings.HasPrefix, bytes.Replace, *)
(* strings.ToLower, strings.TrimSuffix, fmt.Sprintf("%v", int)).           *)
(***************************************************************************)
SetMin(S) == CHOOSE x \in S : \A y \in S : x <= y

SetMax(S) == CHOOSE x \in S : \A y \in S : x >= y

\* s[from:] with a zero-based from
SliceFrom(s, from) == SubSeq(s, from + 1, Len(s))

\* s[from:to] with zero-based from (inclusive) and to (exclusive)
Slice(s, from, to) == SubSeq(s, from + 1, to)

\* bytes.Index(s, c) for a one-byte c: offset of the first c in s, or -1
BytesIndex(s, c) ==
    LET I == {i \in 1..Len(s) : s[i] = c}
    IN  IF I = {} THEN -1 ELSE SetMin(I) - 1

\* strings.HasPrefix
HasPrefix(s, p) == Len(s) >= Len(p) /\ SubSeq(s, 1, Len(p)) = p

\* strings.HasSuffix
HasSuffix(s, p) == Len(s) >= Len(p) /\ SubSeq(s, Len(s) - Len(p) + 1, Len(s)) = p

\* strings.TrimSuffix
TrimSuffix(s, p) == IF HasSuffix(s, p) THEN SubSeq(s, 1, Len(s) - Len(p)) ELSE s

\* bytes.Replace(s, old, new, -1) for a non-empty old: every non-overlapping
\* occurrence, found left to right, is replaced
RECURSIVE BytesReplace(_, _, _)
BytesReplace(s, old, new) ==
    IF Len(s) < Len(old) THEN s
    ELSE IF HasPrefix(s, old)
         THEN new \o BytesReplace(SliceFrom(s, Len(old)), old, new)
         ELSE <<s[1]>> \o BytesReplace(Tail(s), old, new)

UpperCase ==
    <<"A","B","C","D","E","F","G","H","I","J","K","L","M",
      "N","O","P","Q","R","S","T","U","V","W","X","Y","Z">>

LowerCase ==
    <<"a","b","c","d","e","f","g","h","i","j","k","l","m",
      "n","o","p","q","r","s","t","u","v","w","x","y","z">>

\* strings.ToLower
ToLower(s) ==
    [i \in 1..Len(s) |->
        IF \E k \in 1..26 : UpperCase[k] = s[i]
        THEN LowerCase[CHOOSE k \in 1..26 : UpperCase[k] = s[i]]
        ELSE s[i]]

Digits == <<"0","1","2","3","4","5","6","7","8","9">>

\* fmt.Sprintf("%v", n) for an int n >= 0
RECURSIVE Itoa(_)
Itoa(n) ==
    IF n < 10 THEN <<Digits[n + 1]>>
    ELSE Itoa(n \div 10) \o <<Digits[(n % 10) + 1]>>

(***************************************************************************)
(* The platform (oswin.TheApp.Platform()) and path/filepath on it.  Volume *)
(* names (Windows drive letters) are left out: the paths of the model have *)
(* none.                                                                   *)
(***************************************************************************)
Platforms == {"linux", "windows"}

\* filepath.Separator
Separator(plat) == IF plat = "windows" THEN "\\" ELSE "/"

\* os.IsPathSeparator
IsPathSeparator(plat, c) == c = "/" \/ (plat = "windows" /\ c = "\\")

\* filepath.FromSlash
FromSlash(plat, s) ==
    [i \in 1..Len(s) |-> IF s[i] = "/" THEN Separator(plat) ELSE s[i]]

\* the loop of filepath.Clean: r reads path, out is the lazybuf, dotdot the
\* index in out below which ".." may not backtrack
RECURSIVE CleanLoop(_, _, _, _, _, _)
CleanLoop(plat, path, r, out, dotdot, rooted) ==
    LET n == Len(path)
        sepAt(k) == IsPathSeparator(plat, path[k + 1])
    IN  IF r >= n THEN out
        ELSE IF sepAt(r)
        THEN CleanLoop(plat, path, r + 1, out, dotdot, rooted)
        ELSE IF path[r + 1] = "." /\ (r + 1 = n \/ sepAt(r + 1))
        THEN CleanLoop(plat, path, r + 1, out, dotdot, rooted)
        ELSE IF path[r + 1] = "." /\ path[r + 2] = "." /\ (r + 2 = n \/ sepAt(r + 2))
        THEN IF Len(out) > dotdot
             THEN LET W == {w \in dotdot..(Len(out) - 1) :
                               w = dotdot \/ IsPathSeparator(plat, out[w + 1])}
                  IN  CleanLoop(plat, path, r + 2, SubSeq(out, 1, SetMax(W)),
                                dotdot, rooted)
             ELSE IF ~rooted
             THEN LET o2 == (IF Len(out) > 0 THEN out \o <<Separator(plat)>> ELSE out)
                            \o <<".", ".">>
                  IN  CleanLoop(plat, path, r + 2, o2, Len(o2), rooted)
             ELSE CleanLoop(plat, path, r + 2, out, dotdot, rooted)
        ELSE LET o1 == IF (rooted /\ Len(out) # 1) \/ (~rooted /\ Len(out) # 0)
                       THEN out \o <<Separator(plat)>> ELSE out
                 E  == {e \in (r + 1)..n : e = n \/ sepAt(e)}
                 e  == SetMin(E)
             IN  CleanLoop(plat, path, e, o1 \o Slice(path, r, e), dotdot, rooted)

\* filepath.Clean
Clean(plat, path) ==
    IF path = <<>> THEN <<".">>
    ELSE LET rooted == IsPathSeparator(plat, path[1])
             out == IF rooted
                    THEN CleanLoop(plat, path, 1, <<Separator(plat)>>, 1, TRUE)
                    ELSE CleanLoop(plat, path, 0, <<>>, 0, FALSE)
         IN  FromSlash(plat, IF out = <<>> THEN <<".">> ELSE out)

\* filepath.Split: <<dir, file>>, split after the last separator
Split(plat, path) ==
    LET I == {i \in 1..Len(path) : IsPathSeparator(plat, path[i])}
        i == IF I = {} THEN 0 ELSE SetMax(I)
    IN  <<SubSeq(path, 1, i), SubSeq(path, i + 1, Len(path))>>

\* filepath.Ext: from the last dot of the last element, or empty
Ext(plat, path) ==
    LET S == {i \in 1..Len(path) : IsPathSeparator(plat, path[i])}
        s == IF S = {} THEN 0 ELSE SetMax(S)
        D == {i \in (s + 1)..Len(path) : path[i] = "."}
    IN  IF D = {} THEN <<>> ELSE SubSeq(path, SetMax(D), Len(path))

\* sameWord of path/filepath: strings.EqualFold on Windows, == elsewhere
SameWord(plat, a, b) == IF plat = "windows" THEN ToLower(a) = ToLower(b) ELSE a = b

\* offset of the first Separator of s at or after i, or Len(s)
NextSep(plat, s, i) ==
    LET J == {j \in i..(Len(s) - 1) : s[j + 1] = Separator(plat)}
    IN  IF J = {} THEN Len(s) ELSE SetMin(J)

\* the loop of filepath.Rel that positions base[b0:bi] and targ[t0:ti] at the
\* first differing elements; the result is <<b0, bi, t0, ti>>
RECURSIVE RelLoop(_, _, _, _, _, _, _)
RelLoop(plat, base, targ, b0, bi, t0, ti) ==
    IF ~(bi < Len(base) /\ ti < Len(targ)) THEN <<b0, bi, t0, ti>>
    ELSE LET bj == NextSep(plat, base, bi)
             tj == NextSep(plat, targ, ti)
         IN  IF ~SameWord(plat, Slice(targ, t0, tj), Slice(base, b0, bj))
             THEN <<b0, bj, t0, tj>>
             ELSE LET bk == IF bj < Len(base) THEN bj + 1 ELSE bj
                      tk == IF tj < Len(targ) THEN tj + 1 ELSE tj
                  IN  RelLoop(plat, base, targ, bk, bk, tk, tk)

\* ".." for each of n remaining separators of base: "/.." n times
RECURSIVE RelUps(_, _)
RelUps(plat, n) ==
    IF n = 0 THEN <<>> ELSE <<Separator(plat), ".", ".">> \o RelUps(plat, n - 1)

\* filepath.Rel after its loop, which ended at p = <<b0, bi, t0, ti>>
RelResult(plat, base, targ, p) ==
    IF Slice(base, p[1], p[2]) = <<".", ".">> THEN <<>>
    ELSE IF p[1] # Len(base)
    THEN <<".", ".">>
         \o RelUps(plat, Cardinality({j \in (p[1] + 1)..Len(base) :
                                         base[j] = Separator(plat)}))
         \o (IF Len(targ) # p[3]
             THEN <<Separator(plat)>> \o SliceFrom(targ, p[3]) ELSE <<>>)
    ELSE SliceFrom(targ, p[3])

\* filepath.Rel from "if base == "." { base = "" }" on
RelFrom(plat, base, targ) ==
    IF (Len(base) > 0 /\ base[1] = Separator(plat))
       # (Len(targ) > 0 /\ targ[1] = Separator(plat))
    THEN <<>>
    ELSE RelResult(plat, base, targ, RelLoop(plat, base, targ, 0, 0, 0, 0))

\* filepath.Rel for cleaned paths
RelCleaned(plat, base, targ) ==
    IF SameWord(plat, targ, base) THEN <<".">>
    ELSE RelFrom(plat, IF base = <<".">> THEN <<>> ELSE base, targ)

\* filepath.Rel with its error dropped (the caller's "dirrel, _ :="): the
\* empty string when targ cannot be made relative to base
Rel(plat, basepath, targpath) ==
    RelCleaned(plat, Clean(plat, basepath), Clean(plat, targpath))

(***************************************************************************)
(* ArgVars: the variables that can be used in the arguments of commands.   *)
(***************************************************************************)
V_FilePath ==
    <<"{","F","i","l","e","P","a","t","h","}">>
V_FileName ==
    <<"{","F","i","l","e","N","a","m","e","}">>
V_FileExt ==
    <<"{","F","i","l","e","E","x","t","}">>
V_FileExtLC ==
    <<"{","F","i","l","e","E","x","t","L","C","}">>
V_FileNameNoExt ==
    <<"{","F","i","l","e","N","a","m","e","N","o","E","x","t","}">>
V_FileDir ==
    <<"{","F","i","l","e","D","i","r","}">>
V_FileDirPath ==
    <<"{","F","i","l","e","D","i","r","P","a","t","h","}">>
V_FileDirProjRel ==
    <<"{","F","i","l","e","D","i","r","P","r","o","j","R","e","l","}">>
V_ProjectDir ==
    <<"{","P","r","o","j","e","c","t","D","i","r","}">>
V_ProjectPath ==
    <<"{","P","r","o","j","e","c","t","P","a","t","h","}">>
V_CurLine ==
    <<"{","C","u","r","L","i","n","e","}">>
V_CurCol ==
    <<"{","C","u","r","C","o","l","}">>
V_SelStartLine ==
    <<"{","S","e","l","S","t","a","r","t","L","i","n","e","}">>
V_SelStartCol ==
    <<"{","S","e","l","S","t","a","r","t","C","o","l","}">>
V_SelEndLine ==
    <<"{","S","e","l","E","n","d","L","i","n","e","}">>
V_SelEndCol ==
    <<"{","S","e","l","E","n","d","C","o","l","}">>
V_CurSel ==
    <<"{","C","u","r","S","e","l","}">>
V_CurLineText ==
    <<"{","C","u","r","L","i","n","e","T","e","x","t","}">>
V_CurWord ==
    <<"{","C","u","r","W","o","r","d","}">>
V_PromptFilePath ==
    <<"{","P","r","o","m","p","t","F","i","l","e","P","a","t","h","}">>
V_PromptFileName ==
    <<"{","P","r","o","m","p","t","F","i","l","e","N","a","m","e","}">>
V_PromptFileDir ==
    <<"{","P","r","o","m","p","t","F","i","l","e","D","i","r","}">>
V_PromptFileDirPath ==
    <<"{","P","r","o","m","p","t","F","i","l","e","D","i","r","P","a","t","h","}">>
V_PromptFileDirProjRel ==
    <<"{","P","r","o","m","p","t","F","i","l","e","D","i","r","P","r","o","j","R","e","l","}">>
V_PromptString1 ==
    <<"{","P","r","o","m","p","t","S","t","r","i","n","g","1","}">>
V_PromptString2 ==
    <<"{","P","r","o","m","p","t","S","t","r","i","n","g","2","}">>

\* the contextual variables, which SetArgVarVals resolves from the file, the
\* project and the editor
FileVars ==
    {V_FilePath, V_FileName, V_FileExt, V_FileExtLC, V_FileNameNoExt, V_FileDir,
     V_FileDirPath, V_FileDirProjRel, V_ProjectDir, V_ProjectPath}

EditorVars ==
    {V_CurLine, V_CurCol, V_SelStartLine, V_SelStartCol, V_SelEndLine,
     V_SelEndCol, V_CurSel, V_CurLineText, V_CurWord}

\* the interactive variables, which only a prompt resolves
PromptVars ==
    {V_PromptFilePath, V_PromptFileName, V_PromptFileDir, V_PromptFileDirPath,
     V_PromptFileDirProjRel, V_PromptString1, V_PromptString2}

ArgVars ==
    <<V_FilePath, V_FileName, V_FileExt, V_FileExtLC,
      V_FileNameNoExt, V_FileDir, V_FileDirPath, V_FileDirProjRel,
      V_ProjectDir, V_ProjectPath, V_CurLine, V_CurCol,
      V_SelStartLine, V_SelStartCol, V_SelEndLine, V_SelEndCol,
      V_CurSel, V_CurLineText, V_CurWord, V_PromptFilePath,
      V_PromptFileName, V_PromptFileDir, V_PromptFileDirPath, V_PromptFileDirProjRel,
      V_PromptString1, V_PromptString2>>

ArgVarSet == {ArgVars[i] : i \in 1..Len(ArgVars)}

(***************************************************************************)
(* The value map.  A Go map is a function from its keys; the nil map that  *)
(* ArgVarVals starts as reads like the empty map.                          *)
(***************************************************************************)
NilMap == [k \in {} |-> <<>>]

\* m[k] = v of a Go map
MapSet(m, k, v) == [x \in DOMAIN m \cup {k} |-> IF x = k THEN v ELSE m[x]]

\* no editor (a nil *giv.TextView)
NilTV == [Nil |-> TRUE]

Pos(ln, ch) == [Ln |-> ln, Ch |-> ch]

\* giv.TextView as far as SetArgVarVals reads it: the cursor and the selection
\* region, which is the zero region when nothing is selected
TextView(cur, selStart, selEnd) ==
    [CursorPos |-> cur, SelectReg |-> [Start |-> selStart, End |-> selEnd]]

\* SetArgVarVals, the values computed from the file and project paths, once
\* fpath, projpath, dirpath, fnm and ext are known
FileValsOf(plat, fpath, projpath, dirpath, fnm, ext) ==
    [k \in FileVars |->
       CASE k = V_FilePath       -> fpath
         [] k = V_FileName       -> fnm
         [] k = V_FileExt        -> ext
         [] k = V_FileExtLC      -> ToLower(ext)
         [] k = V_FileNameNoExt  -> TrimSuffix(fnm, ext)
         [] k = V_FileDir        -> Split(plat, dirpath)[2]
         [] k = V_FileDirPath    -> dirpath
         [] k = V_FileDirProjRel -> Rel(plat, projpath, dirpath)
         [] k = V_ProjectDir     -> Split(plat, projpath)[2]
         [] k = V_ProjectPath    -> projpath]

\* SetArgVarVals from "dirpath, fnm := filepath.Split(fpath)" on
FileValsCleaned(plat, fpath, projpath, sp) ==
    FileValsOf(plat, fpath, projpath, Clean(plat, sp[1]), sp[2], Ext(plat, sp[2]))

\* SetArgVarVals, the values computed from the file and project paths
FileVals(plat, fpath0, projpath0) ==
    FileValsCleaned(plat, Clean(plat, fpath0), Clean(plat, projpath0),
                    Split(plat, Clean(plat, fpath0)))

\* SetArgVarVals, the values taken from the editor, or empty without one
EditorVals(tv) ==
    [k \in EditorVars |->
       IF tv = NilTV THEN <<>>
       ELSE CASE k = V_CurLine      -> Itoa(tv.CursorPos.Ln)
              [] k = V_CurCol       -> Itoa(tv.CursorPos.Ch)
              [] k = V_SelStartLine -> Itoa(tv.SelectReg.Start.Ln)
              [] k = V_SelStartCol  -> Itoa(tv.SelectReg.Start.Ch)
              [] k = V_SelEndLine   -> Itoa(tv.SelectReg.End.Ln)
              [] k = V_SelEndCol    -> Itoa(tv.SelectReg.Start.Ch)
              [] k = V_CurSel       -> <<>>
              [] k = V_CurLineText  -> <<>>
              [] k = V_CurWord      -> <<>>]

(***************************************************************************)
(* The file and project paths of the model.                                *)
(***************************************************************************)
MainGo == <<"m", "a", "i", "n", ".", "g", "o">>

\* file paths of the active buffer: main.go; a file named "\{x\" in a
\* directory named "d\" (Unix file names hold any byte but "/" and NUL); a file
\* named "{FileDir}"; on Windows a file in the root directory
FilePaths(plat) ==
    IF plat = "windows"
    THEN {<<"\\", "p", "\\">> \o MainGo,
          <<"/">> \o MainGo,
          <<"\\", "p", "\\">> \o V_FileDir}
    ELSE {<<"/", "p", "/">> \o MainGo,
          <<"/", "p", "/", "d", "\\", "/", "\\", "{", "x", "\\">>,
          <<"/", "p", "/">> \o V_FileDir}

ProjPaths(plat) == {<<Separator(plat), "p">>}

\* a rebuild without the else branch: with no editor the editor keys are left
\* as they were
SetArgVarValsKeepEditor(plat, av, fpath0, projpath0, tv) ==
    LET fv == FileVals(plat, fpath0, projpath0)
        ev == EditorVals(tv)
        set == IF tv = NilTV THEN FileVars ELSE FileVars \cup EditorVars
    IN  [k \in DOMAIN av \cup set |->
           IF k \in FileVars THEN fv[k]
           ELSE IF k \in EditorVars /\ tv # NilTV THEN ev[k]
           ELSE av[k]]

\* a rebuild that makes a new map each time: what it does not assign is gone
SetArgVarValsFresh(plat, av, fpath0, projpath0, tv) ==
    LET fv == FileVals(plat, fpath0, projpath0)
        ev == EditorVals(tv)
    IN  [k \in FileVars \cup EditorVars |->
           IF k \in FileVars THEN fv[k] ELSE ev[k]]

\* SetArgVarVals: the map after the call, from the map before it.  A nil map
\* is made first; every key the function assigns gets its new value, and a key
\* it does not assign keeps the value it had.
SetArgVarVals(plat, av, fpath0, projpath0, tv) ==
    LET fv == FileVals(plat, fpath0, projpath0)
        ev == EditorVals(tv)
    IN  [k \in DOMAIN av \cup FileVars \cup EditorVars |->
           IF k \in FileVars THEN fv[k]
           ELSE IF k \in EditorVars THEN ev[k]
           ELSE av[k]]

(***************************************************************************)
(* State.                                                                  *)
(***************************************************************************)
VARIABLES
    platform,    \* oswin.TheApp.Platform(), fixed for the run of the process
    ArgVarVals,  \* the process-wide value map
    pc,          \* where the control thread is: "idle", "loop" (in the scan
                 \* loop of BindArgVars), "done" (BindArgVars has returned),
                 \* "dialog" (the commit message is asked for), "iter" (in the
                 \* loop of ExecCmds), "savedlg" (the choice of SaveAllCheck
                 \* is asked for), "saving" (in the loop of SaveAllOpenNodes),
                 \* "call" (SaveAllCheck is about to call its function),
                 \* "nextpanel" or "prevpanel" (in the loop of FocusNextPanel
                 \* or FocusPrevPanel)
    arg,         \* BindArgVars: its argument
    bs,          \* BindArgVars: the bytes being rewritten
    ci,          \* BindArgVars: the scan position in bs
    sz,          \* BindArgVars: the length of bs the loop tests against
    gotquote,    \* BindArgVars: an escaped "{" was seen
    result,      \* BindArgVars: the string returned
    lastTok,     \* history: what the loop examined last, [kind, end]: a
                 \* well-formed token and the index in bs of its "}", or a
                 \* quoted or unterminated "{" and its index, or NoTok
    ctx,         \* the live context: the active text view and its buffer
    rebuiltTV,   \* history: the text view SetArgVarVals was last called with
    cmd,         \* the name of the command being executed, "" when none is
    answer,      \* history: the prompt answer given for the invocation being
                 \* executed, [given, text]
    VersCtrl,    \* Gide.Prefs.VersCtrl, the version-control system of the project
    notice,      \* the title of the last prompt dialog shown for an error, or ""
    CmdBufs,     \* Gide.CmdBufs: command name -> its buffer
    bufs,        \* the buffers by identity: [text, settled]
    tabs,        \* the names of the output tabs of the main tab view
    RunningCmds, \* Gide.RunningCmds: the entries [name, proc], oldest first
    procs,       \* the processes started so far: [name, buf, out, state,
                 \* killed, chain, pos], the handle being the index
    chains,      \* the calls of ExecCmds that are not over: [names still to
                 \* run, clear, wait |-> the process waited for or 0, pos]
    cur,         \* the chain the control thread is running an iteration of, or 0
    ChangeLog,   \* Gide.Prefs.ChangeLog: the messages of the commits recorded
    nch,         \* Gide.NChangedFiles(): the open files with unsaved changes
    fun,         \* the function SaveAllCheck was last given: [kind, names, by,
                 \* cancelOpt, check |-> how the check has gone so far]
    CmdHistory,  \* Gide.CmdHistory
    memo,        \* history: one call of BindArgVars that returned: its argument,
                 \* the value map and the result; old once its command is over
    KeySeq1,     \* Gide.KeySeq1: the first chord of a sequence, "" when none is
    kt,          \* the last key event given to GideKeys: [chord, processed,
                 \* gkf and kf |-> the cases the two switches took, calls |->
                 \* the methods called for it, seq |-> KeySeq1 when it came]
    Splits,      \* SplitView.Splits in hundredths, by panel index
    focus,       \* the index of the panel that holds the focus, or -1
    curTab,      \* by tab panel: the tab view has a current tab
    cp,          \* FocusNextPanel, FocusPrevPanel: the panel index of the loop
    tested       \* history: the panels the loop under way has found collapsed

vars ==
    <<platform, ArgVarVals, pc, arg, bs, ci, sz, gotquote, result, lastTok,
      ctx, rebuiltTV, cmd, answer, VersCtrl, notice, CmdBufs, bufs, tabs,
      RunningCmds, procs, chains, cur, ChangeLog, nch, fun, CmdHistory, memo,
      KeySeq1, kt, Splits, focus, curTab, cp, tested>>

\* the key sequence under way, the last key event and the panels
uiVars == <<KeySeq1, kt, Splits, focus, curTab, cp, tested>>

\* the unsaved files, the pending call of SaveAllCheck and the history
saveVars == <<nch, fun, CmdHistory>>

\* the buffers, the tabs, the processes, the chains, the change log and the
\* unsaved files
outVars ==
    <<CmdBufs, bufs, tabs, RunningCmds, procs, chains, cur, ChangeLog, saveVars>>

\* what BindArgVars neither reads nor writes
runVars == <<ctx, rebuiltTV, cmd, answer, VersCtrl, uiVars, notice, outVars, memo>>

NoTok == [kind |-> "none", end |-> -1]

NoAnswer == [given |-> FALSE, text |-> <<>>]

Answer(text) == [given |-> TRUE, text |-> text]

\* Gide.CmdBufs before the first buffer is made
NilBufs == [n \in {} |-> 0]

\* SaveAllCheck has been given no function
NoFun ==
    [kind |-> "none", names |-> <<>>, by |-> "", cancelOpt |-> FALSE,
     check |-> "unchecked"]

\* nothing has been run
NoneRun ==
    /\ CmdBufs = NilBufs
    /\ bufs = <<>>
    /\ tabs = {}
    /\ RunningCmds = <<>>
    /\ procs = <<>>
    /\ chains = <<>>
    /\ cur = 0
    /\ ChangeLog = <<>>
    /\ nch = 0
    /\ fun = NoFun
    /\ CmdHistory = <<>>

\* no key event has come yet
NoKey ==
    [chord |-> "", processed |-> FALSE, gkf |-> "Nil", kf |-> "Nil",
     calls |-> <<>>, status |-> <<>>, seq |-> ""]

\* the splitter panels, in the order of SplitView.Kids
FileTreeIdx == 0

TextView1Idx == 1

TextView2Idx == 2

MainTabsIdx == 3

VisTabsIdx == 4

Panels == FileTreeIdx..VisTabsIdx

NoMemo == [set |-> FALSE, old |-> FALSE, arg |-> <<>>, vals |-> NilMap, res |-> <<>>]

(***************************************************************************)
(* BindArgVars, one action per way through an iteration of its loop.  The  *)
(* iterations that leave the loop also run the code after it and return.   *)
(***************************************************************************)
\* an entry that keeps gotquote as the call before left it
BindEnterStale(a) ==
    /\ arg' = a
    /\ bs' = a
    /\ ci' = 0
    /\ sz' = Len(a)
    /\ gotquote' = gotquote
    /\ result' = <<>>
    /\ lastTok' = NoTok
    /\ pc' = "loop"

\* entry: the locals before the loop
BindEnter(a) ==
    /\ arg' = a
    /\ bs' = a
    /\ ci' = 0
    /\ sz' = Len(a)
    /\ gotquote' = FALSE
    /\ result' = <<>>
    /\ lastTok' = NoTok
    /\ pc' = "loop"

\* an ending that turns every "/" into a backslash on Windows
FinishSlashAll(b, quoted, plat) ==
    LET b1 == IF quoted THEN BytesReplace(b, <<"\\", "{">>, <<"{">>) ELSE b
    IN  IF plat = "windows"
        THEN BytesReplace(b1, <<"/">>, <<"\\">>)
        ELSE b1

\* the code after the loop: the escapes of "{" are stripped when one was seen,
\* and on Windows "}/{" becomes "}\{"
Finish(b, quoted, plat) ==
    LET b1 == IF quoted THEN BytesReplace(b, <<"\\", "{">>, <<"{">>) ELSE b
    IN  IF plat = "windows"
        THEN BytesReplace(b1, <<"}", "/", "{">>, <<"}", "\\", "{">>)
        ELSE b1

BindReturn ==
    /\ result' = Finish(bs, gotquote, platform)
    /\ pc' = "done"
    /\ UNCHANGED <<runVars, platform, ArgVarVals, arg, bs, sz, gotquote>>

\* sb: offset of the next "{" from ci, or -1
NextOpen == BytesIndex(SliceFrom(bs, ci), "{")

\* the position of that "{"
OpenAt == ci + NextOpen

\* the "{" is preceded by a backslash
Quoted == OpenAt - 1 >= 0 /\ bs[OpenAt] = "\\"

\* eb: offset of the next "}" after the "{", or -1
NextClose == BytesIndex(SliceFrom(bs, OpenAt + 1), "}")

\* the position of that "}"
CloseAt == NextClose + OpenAt + 1

\* vnm: the token, braces included
VarName == Slice(bs, OpenAt, CloseAt + 1)

\* an unquoted "{" with a "}" after it lies ahead of ci
AtToken == pc = "loop" /\ ci < sz /\ NextOpen >= 0 /\ ~Quoted /\ NextClose >= 0

\* "for ci < sz" fails
BindLoopEnd ==
    /\ pc = "loop"
    /\ ~(ci < sz)
    /\ ci' = ci
    /\ lastTok' = lastTok
    /\ BindReturn

\* no "{" is left: break
BindNoOpen ==
    /\ pc = "loop"
    /\ ci < sz
    /\ NextOpen < 0
    /\ ci' = ci
    /\ lastTok' = lastTok
    /\ BindReturn

\* the "{" is quoted: step over it
BindQuoted ==
    /\ pc = "loop"
    /\ ci < sz
    /\ NextOpen >= 0
    /\ Quoted
    /\ ci' = OpenAt + 1
    /\ gotquote' = TRUE
    /\ lastTok' = [kind |-> "quoted", end |-> OpenAt]
    /\ UNCHANGED <<runVars, platform, ArgVarVals, pc, arg, bs, sz, result>>

\* no "}" follows the "{": break
BindNoClose ==
    /\ pc = "loop"
    /\ ci < sz
    /\ NextOpen >= 0
    /\ ~Quoted
    /\ NextClose < 0
    /\ ci' = OpenAt
    /\ lastTok' = [kind |-> "unterminated", end |-> OpenAt]
    /\ BindReturn

\* the token starts with "{Prompt": nothing is done
BindPrompt ==
    /\ AtToken
    /\ HasPrefix(VarName, <<"{", "P", "r", "o", "m", "p", "t">>)
    /\ ci' = OpenAt
    /\ lastTok' = [kind |-> "prompt", end |-> CloseAt]
    /\ UNCHANGED <<runVars, platform, ArgVarVals, pc, arg, bs, sz, gotquote, result>>

\* the token is a key of ArgVarVals: its value replaces it and the scan goes
\* on after the value
BindSubst ==
    /\ AtToken
    /\ ~HasPrefix(VarName, <<"{", "P", "r", "o", "m", "p", "t">>)
    /\ VarName \in DOMAIN ArgVarVals
    /\ LET val  == ArgVarVals[VarName]
           end  == SliceFrom(bs, CloseAt + 1)
           head == Slice(bs, 0, OpenAt) \o val
       IN  /\ bs' = head \o end
           /\ ci' = Len(head)
           /\ sz' = Len(head \o end)
    /\ lastTok' = [kind |-> "subst", end |-> CloseAt]
    /\ UNCHANGED <<runVars, platform, ArgVarVals, pc, arg, gotquote, result>>

\* the token is no key of ArgVarVals: only sz is set again
BindUnknown ==
    /\ AtToken
    /\ ~HasPrefix(VarName, <<"{", "P", "r", "o", "m", "p", "t">>)
    /\ VarName \notin DOMAIN ArgVarVals
    /\ ci' = OpenAt
    /\ sz' = Len(bs)
    /\ lastTok' = [kind |-> "unknown", end |-> CloseAt]
    /\ UNCHANGED <<runVars, platform, ArgVarVals, pc, arg, bs, gotquote, result>>

BindArgVars ==
    \/ BindLoopEnd
    \/ BindNoOpen
    \/ BindQuoted
    \/ BindNoClose
    \/ BindPrompt
    \/ BindSubst
    \/ BindUnknown

(***************************************************************************)
(* Inputs of the expander.                                                 *)
(***************************************************************************)
\* what argument templates are made of
TemplatePieces ==
    {V_FileName, V_FileDir, V_PromptString1,
     <<"{">>, <<"}">>, <<"\\">>, <<"\\", "{">>, <<"/">>, <<"a">>}

RECURSIVE Concat(_)
Concat(ps) == IF ps = <<>> THEN <<>> ELSE Head(ps) \o Concat(Tail(ps))

PieceSeqs == UNION {[1..n -> TemplatePieces] : n \in 0..MaxPieces}

\* the template "\{literal\}"
EscapedLiteral == <<"\\", "{", "l", "i", "t", "e", "r", "a", "l", "\\", "}">>

\* every sequence of at most MaxPieces pieces, every variable alone, and
\* "\{literal\}"
Templates == {Concat(ps) : ps \in PieceSeqs} \cup ArgVarSet \cup {EscapedLiteral}

\* an editor with the cursor at line index 0, column 1 and no selection
SampleTV == TextView(Pos(0, 1), Pos(0, 0), Pos(0, 0))

\* an editor with the cursor at line index 1, column 0 and a selection from
\* (0, 1) to (1, 0)
SelectTV == TextView(Pos(1, 0), Pos(0, 1), Pos(1, 0))

\* no active text view
NoView == [tv |-> NilTV, hasBuf |-> FALSE, Filename |-> <<>>]

\* what Gide.SetArgVarVals reads: the active text view, nil or not, and the
\* file name of its buffer when it has one
Contexts(plat) ==
    {NoView, [tv |-> SampleTV, hasBuf |-> FALSE, Filename |-> <<>>]}
    \cup {[tv |-> tv, hasBuf |-> TRUE, Filename |-> f] :
             tv \in {SampleTV, SelectTV}, f \in FilePaths(plat)}

\* commit messages
Messages == {<<"f", "i", "x">>}

\* value maps the program can hold when a command is expanded: the nil map,
\* a rebuilt map, and a rebuilt map with a prompt answer written into it
InitMaps(plat) ==
    LET built == {SetArgVarVals(plat, NilMap, f, p, tv) :
                     f \in FilePaths(plat), p \in ProjPaths(plat),
                     tv \in {NilTV, SampleTV}}
    IN  {NilMap} \cup built
        \cup {MapSet(m, V_PromptString1, msg) : m \in built, msg \in Messages}

(***************************************************************************)
(* SpecExpand: BindArgVars applied to every template under every such map. *)
(***************************************************************************)
InitExpand ==
    /\ platform \in Platforms
    /\ ArgVarVals \in InitMaps(platform)
    /\ \E t \in Templates :
          /\ arg = t
          /\ bs = t
          /\ sz = Len(t)
    /\ ci = 0
    /\ gotquote = FALSE
    /\ result = <<>>
    /\ lastTok = NoTok
    /\ pc = "loop"
    /\ ctx = NoView
    /\ rebuiltTV = NilTV
    /\ cmd = ""
    /\ answer = NoAnswer
    /\ VersCtrl = ""
    /\ notice = ""
    /\ NoneRun
    /\ memo = NoMemo
    /\ KeySeq1 = ""
    /\ kt = NoKey
    /\ cp = 0
    /\ tested = {}
    /\ Splits = [p \in Panels |-> <<100, 325, 325, 250, 0>>[p + 1]]
    /\ focus = -1
    /\ curTab = [p \in {MainTabsIdx, VisTabsIdx} |-> FALSE]

NextExpand == BindArgVars

SpecExpand == InitExpand /\ [][NextExpand]_vars


(***************************************************************************)
(* The commands and the places of Gide that rebuild the value map, write   *)
(* prompt answers into it and run a command.                               *)
(***************************************************************************)
\* AvailCmds: the catalog, each command with its name, one argument template,
\* the languages and version-control systems it applies to (none: to all) and
\* its Wait flag.  "Commit" and "Run Prompt" take the prompted string, "Commit
\* All" takes no prompted value; the argument of "Echo" starts with an escaped
\* "{" and ends with an open one, and that of "Awk" is braces around a word
\* that is no variable.
AvailCmds ==
    <<[Name |-> "Build",      Arg |-> V_FileDir \o <<"/">> \o V_FileName,
       Langs |-> {"Go"},      Wait |-> TRUE],
      [Name |-> "Commit",     Arg |-> V_PromptString1,
       Langs |-> {"Git"},     Wait |-> TRUE],
      [Name |-> "Commit All", Arg |-> <<"-", "a">>,
       Langs |-> {"Git", "SVN"}, Wait |-> TRUE],
      [Name |-> "Run Prompt", Arg |-> V_PromptString1,
       Langs |-> {},          Wait |-> FALSE],
      [Name |-> "Open File",  Arg |-> V_FilePath,
       Langs |-> {},          Wait |-> FALSE],
      [Name |-> "Echo",       Arg |-> <<"\\", "{">> \o V_FileExt \o <<"{">>,
       Langs |-> {},          Wait |-> FALSE],
      [Name |-> "Awk",        Arg |-> <<"{", "p", "r", "i", "n", "t", "}">>,
       Langs |-> {"Python"},  Wait |-> FALSE]>>

CmdNames == {AvailCmds[i].Name : i \in 1..Len(AvailCmds)}

\* AvailCmds.CmdByName
CmdByName(name) == AvailCmds[CHOOSE i \in 1..Len(AvailCmds) : AvailCmds[i].Name = name]

\* the version-control systems of projects; "" is none
VersCtrls == {"", "Git", "SVN"}

\* a filter that looks at the language only
AppliesLang(c, lang, vcs) == c.Langs = {} \/ lang \in c.Langs

\* the command applies to the language or to the version-control system
Applies(c, lang, vcs) == c.Langs = {} \/ lang \in c.Langs \/ vcs \in c.Langs

\* Commands.FilterCmdNames over the commands from the i-th on
RECURSIVE FilterFrom(_, _, _, _)
FilterFrom(cat, i, lang, vcs) ==
    IF i > Len(cat) THEN <<>>
    ELSE IF Applies(cat[i], lang, vcs)
         THEN <<cat[i].Name>> \o FilterFrom(cat, i + 1, lang, vcs)
         ELSE FilterFrom(cat, i + 1, lang, vcs)

\* AvailCmds.FilterCmdNames
FilterCmdNames(lang, vcs) == FilterFrom(AvailCmds, 1, lang, vcs)

\* the bytes of a command name
NameBytes(name) ==
    CASE name = "Build"      -> <<"B", "u", "i", "l", "d">>
      [] name = "Commit"     -> <<"C", "o", "m", "m", "i", "t">>
      [] name = "Commit All" -> <<"C", "o", "m", "m", "i", "t", " ", "A", "l", "l">>
      [] name = "Run Prompt" -> <<"R", "u", "n", " ", "P", "r", "o", "m", "p", "t">>
      [] name = "Open File"  -> <<"O", "p", "e", "n", " ", "F", "i", "l", "e">>
      [] name = "Echo"       -> <<"E", "c", "h", "o">>
      [] name = "Awk"        -> <<"A", "w", "k">>
      [] OTHER               -> <<>>

\* strings.Contains
Contains(s, sub) ==
    \E i \in 0..(Len(s) - Len(sub)) : SubSeq(s, i + 1, i + Len(sub)) = sub

\* a loop without its break: the last name with "Commit" in it, or ""
RECURSIVE LastCommitFrom(_, _)
LastCommitFrom(cmds, i) ==
    IF i > Len(cmds) THEN ""
    ELSE IF LastCommitFrom(cmds, i + 1) # "" THEN LastCommitFrom(cmds, i + 1)
    ELSE IF Contains(NameBytes(cmds[i]), <<"C", "o", "m", "m", "i", "t">>)
         THEN cmds[i]
         ELSE ""

\* CommitNoChecks, its loop from the i-th name on: the first name with
\* "Commit" in it, or ""
RECURSIVE FirstCommitFrom(_, _)
FirstCommitFrom(cmds, i) ==
    IF i > Len(cmds) THEN ""
    ELSE IF Contains(NameBytes(cmds[i]), <<"C", "o", "m", "m", "i", "t">>)
         THEN cmds[i]
         ELSE FirstCommitFrom(cmds, i + 1)

\* ge.ActiveLang, as SetActiveFileInfo sets it from the buffer of the view
ActiveLang(view) ==
    IF view.hasBuf /\ HasSuffix(view.Filename, <<".", "g", "o">>)
    THEN "Go"
    ELSE "NoSupport"

\* ge.Prefs.MainLang: the main language of the project
MainLang == "Python"

\* GideExecCmds: the names of the commands for the active file
GideExecCmds(view, vcs) ==
    IF view.tv = NilTV THEN <<>>
    ELSE IF ActiveLang(view) = "NoSupport"
         THEN FilterCmdNames(MainLang, vcs)
         ELSE FilterCmdNames(ActiveLang(view), vcs)

\* the title of the dialog of CommitNoChecks
NoCommitCmd == "No Commit command found"

\* Gide.SetArgVarVals: the map after it, for the context it reads
GideSetArgVarVals(plat, av, view, proj) ==
    IF view.tv = NilTV \/ ~view.hasBuf
    THEN SetArgVarVals(plat, av, <<>>, proj, view.tv)
    ELSE SetArgVarVals(plat, av, view.Filename, proj, view.tv)

\* Gide.SetArgVarVals on the live context
Rebuilt(av) ==
    {GideSetArgVarVals(platform, av, ctx, proj) : proj \in ProjPaths(platform)}

\* ExecCmdName for a name of the catalog: the map is rebuilt and the command
\* is run, which expands its argument
ExecCmdName(name, av, ans) ==
    /\ name \in CmdNames
    /\ ArgVarVals' \in Rebuilt(av)
    /\ cmd' = name
    /\ answer' = ans
    /\ BindEnter(CmdByName(name).Arg)
    /\ rebuiltTV' = ctx.tv
    /\ UNCHANGED <<platform, ctx, memo>>

\* the user moves to another view, file or cursor position
ViewChanged ==
    /\ pc = "idle"
    /\ ctx' \in Contexts(platform) \ {ctx}
    /\ UNCHANGED <<platform, ArgVarVals, pc, arg, bs, ci, sz, gotquote, result,
                   lastTok, rebuiltTV, cmd, answer, memo, VersCtrl, uiVars, notice,
                   outVars>>

\* a command is executed by name: from the chooser, Build or Run
\* (in this and in the actions after it the buffers and the processes are
\* not followed: they are in SpecRun)
ExecCmd ==
    /\ pc = "idle"
    /\ \E name \in CmdNames : ExecCmdName(name, ArgVarVals, NoAnswer)
    /\ UNCHANGED <<VersCtrl, uiVars, notice, outVars>>

\* ExecCmdNameFileNode: the map is rebuilt for the node's path, without editor
ExecCmdNameFileNode ==
    /\ pc = "idle"
    /\ \E name \in CmdNames, f \in FilePaths(platform), proj \in ProjPaths(platform) :
          /\ ArgVarVals' = SetArgVarVals(platform, ArgVarVals, f, proj, NilTV)
          /\ cmd' = name
          /\ BindEnter(CmdByName(name).Arg)
    /\ answer' = NoAnswer
    /\ rebuiltTV' = NilTV
    /\ UNCHANGED <<platform, ctx, memo, VersCtrl, uiVars, notice, outVars>>

\* CommitNoChecks up to its dialog: the first of the filtered names with
\* "Commit" in it is found, the map is rebuilt and the commit message is asked
\* for; when there is no such name a dialog says so and nothing else is done
CommitNoChecksBody ==
    /\ LET cmds  == FilterCmdNames(ActiveLang(ctx), VersCtrl)
           cmdnm == FirstCommitFrom(cmds, 1)
       IN  IF cmdnm = ""
           THEN /\ notice' = NoCommitCmd
                /\ pc' = "idle"
                /\ UNCHANGED <<ArgVarVals, rebuiltTV, cmd, answer>>
           ELSE /\ cmd' = cmdnm
                /\ ArgVarVals' \in Rebuilt(ArgVarVals)
                /\ rebuiltTV' = ctx.tv
                /\ pc' = "dialog"
                /\ answer' = NoAnswer
                /\ notice' = notice
    /\ UNCHANGED <<platform, arg, bs, ci, sz, gotquote, result, lastTok, ctx, memo,
                   VersCtrl, uiVars>>

\* CommitNoChecks is called
CommitNoChecks ==
    /\ pc = "idle"
    /\ CommitNoChecksBody
    /\ UNCHANGED outVars

\* the dialog is accepted with a message: it is written into the map and the
\* Commit command is executed
DialogAccepted ==
    /\ pc = "dialog"
    /\ \E msg \in Messages :
          ExecCmdName(cmd, MapSet(ArgVarVals, V_PromptString1, msg), Answer(msg))
    /\ UNCHANGED <<VersCtrl, uiVars, notice, outVars>>

\* a dismissed dialog that adds a record without message to the change log
DialogCanceledLogs ==
    /\ pc = "dialog"
    /\ pc' = "idle"
    /\ cmd' = ""
    /\ ChangeLog' = Append(ChangeLog, <<>>)
    /\ UNCHANGED <<platform, ArgVarVals, arg, bs, ci, sz, gotquote, result,
                   lastTok, ctx, rebuiltTV, answer, memo, VersCtrl, uiVars, notice,
                   CmdBufs, bufs, tabs, RunningCmds, procs, chains, cur,
                   saveVars>>

\* the dialog is dismissed
DialogCanceled ==
    /\ pc = "dialog"
    /\ pc' = "idle"
    /\ cmd' = ""
    /\ UNCHANGED <<platform, ArgVarVals, arg, bs, ci, sz, gotquote, result,
                   lastTok, ctx, rebuiltTV, answer, memo, VersCtrl, uiVars, notice,
                   outVars>>

\* FileNodeOpened for an executable: the map is rebuilt, the node's path is
\* written as the prompted string and "Run Prompt" is executed
FileNodeOpenedExe ==
    /\ pc = "idle"
    /\ \E f \in FilePaths(platform), m \in Rebuilt(ArgVarVals) :
          ExecCmdName("Run Prompt", MapSet(m, V_PromptString1, f), Answer(f))
    /\ UNCHANGED <<VersCtrl, uiVars, notice, outVars>>

\* the arguments are expanded: the command goes on to its process
CmdReturn ==
    /\ pc = "done"
    /\ pc' = "idle"
    /\ cmd' = ""
    /\ memo' = [memo EXCEPT !.old = memo.set]
    /\ UNCHANGED <<platform, ArgVarVals, arg, bs, ci, sz, gotquote, result,
                   lastTok, ctx, rebuiltTV, answer, VersCtrl, uiVars, notice, outVars>>

Init ==
    /\ platform \in Platforms
    /\ ArgVarVals = NilMap
    /\ pc = "idle"
    /\ arg = <<>>
    /\ bs = <<>>
    /\ ci = 0
    /\ sz = 0
    /\ gotquote = FALSE
    /\ result = <<>>
    /\ lastTok = NoTok
    /\ ctx \in Contexts(platform)
    /\ rebuiltTV = NilTV
    /\ cmd = ""
    /\ answer = NoAnswer
    /\ VersCtrl \in VersCtrls
    /\ notice = ""
    /\ NoneRun
    /\ memo = NoMemo
    /\ KeySeq1 = ""
    /\ kt = NoKey
    /\ cp = 0
    /\ tested = {}
    /\ Splits = [p \in Panels |-> <<100, 325, 325, 250, 0>>[p + 1]]
    /\ focus = -1
    /\ curTab = [p \in {MainTabsIdx, VisTabsIdx} |-> FALSE]

\* the steps of the program under one live context
NextView ==
    \/ ExecCmd
    \/ ExecCmdNameFileNode
    \/ CommitNoChecks
    \/ DialogAccepted
    \/ DialogCanceled
    \/ FileNodeOpenedExe
    \/ BindArgVars
    \/ CmdReturn

Next ==
    \/ ViewChanged
    \/ NextView

Spec == Init /\ [][Next]_vars

(***************************************************************************)
(* SpecDet: the program under one live context and one version-control     *)
(* setting, with one returned call of BindArgVars kept for comparison with *)
(* the calls after it.                                                     *)
(***************************************************************************)
Remember ==
    /\ pc = "done"
    /\ ~memo.set
    /\ memo' = [set |-> TRUE, old |-> FALSE, arg |-> arg, vals |-> ArgVarVals,
                res |-> result]
    /\ UNCHANGED <<platform, ArgVarVals, pc, arg, bs, ci, sz, gotquote, result,
                   lastTok, ctx, rebuiltTV, cmd, answer, VersCtrl, uiVars, notice,
                   outVars>>

NextDet ==
    \/ NextView
    \/ Remember

\* one project, whose version-control system has a Commit command that takes
\* no prompted value
InitDet == Init /\ VersCtrl = "SVN"

SpecDet == InitDet /\ [][NextDet]_vars


(***************************************************************************)
(* Bounds of the runs.                                                     *)
(***************************************************************************)
\* how many processes are started in a behaviour
MaxProcs == 3
\* how many pieces of output a process writes
MaxOut == 1
\* how many chains are started in a behaviour
MaxChains == 2

(***************************************************************************)
(* The command buffers and the output tabs.                                *)
(***************************************************************************)
\* &giv.TextBuf{} after InitName: no text
NewBuf == [text |-> <<>>, settled |-> FALSE]

\* a buf.New(0) that leaves the text where it is
BufNewKeep(heap, id) == heap

\* buf.New(0) on the buffer of the given identity: the text is dropped
BufNew(heap, id) == [heap EXCEPT ![id].text = <<>>]

\* a store that answers a clearing request for an existing name with a fresh
\* buffer put in the place of the old one
FindOrMakeCmdBufReplace(cb, heap, cmdNm, clear) ==
    IF cmdNm \in DOMAIN cb /\ ~clear
    THEN [CmdBufs |-> cb, bufs |-> heap, buf |-> cb[cmdNm], nw |-> FALSE]
    ELSE [CmdBufs |-> MapSet(cb, cmdNm, Len(heap) + 1),
          bufs    |-> Append(heap, NewBuf),
          buf     |-> Len(heap) + 1,
          nw      |-> cmdNm \notin DOMAIN cb]

\* Gide.FindOrMakeCmdBuf: the map and the buffers after the call, the buffer
\* it returns and whether it is new
FindOrMakeCmdBuf(cb, heap, cmdNm, clear) ==
    IF cmdNm \in DOMAIN cb
    THEN [CmdBufs |-> cb,
          bufs    |-> IF clear THEN BufNew(heap, cb[cmdNm]) ELSE heap,
          buf     |-> cb[cmdNm],
          nw      |-> FALSE]
    ELSE [CmdBufs |-> MapSet(cb, cmdNm, Len(heap) + 1),
          bufs    |-> Append(heap, NewBuf),
          buf     |-> Len(heap) + 1,
          nw      |-> TRUE]

\* Gide.FindOrMakeCmdTab: the buffer is found or made and the tab of that
\* name is found or made to show it
FindOrMakeCmdTab(cmdNm, clearBuf) ==
    LET r == FindOrMakeCmdBuf(CmdBufs, bufs, cmdNm, clearBuf)
    IN  /\ CmdBufs' = r.CmdBufs
        /\ bufs' = r.bufs
        /\ tabs' = tabs \cup {cmdNm}

(***************************************************************************)
(* The running commands: the registry and the runner.                      *)
(***************************************************************************)
\* the entries of the registry under a name
EntriesOf(reg, name) == {i \in 1..Len(reg) : reg[i].name = name}

\* the registry without the given entries
RECURSIVE RegWithout(_, _)
RegWithout(reg, dropped) ==
    IF reg = <<>> THEN <<>>
    ELSE IF Head(reg) \in dropped
         THEN RegWithout(Tail(reg), dropped)
         ELSE <<Head(reg)>> \o RegWithout(Tail(reg), dropped)

\* a KillByName that leaves the entry for the exit of the process to remove
KillByNameKeep(reg, ps, name) ==
    [reg   |-> reg,
     procs |-> [p \in 1..Len(ps) |->
                  IF \E i \in EntriesOf(reg, name) : reg[i].proc = p
                  THEN [ps[p] EXCEPT !.killed = TRUE]
                  ELSE ps[p]]]

\* CmdRuns.KillByName: the process behind the name is told to terminate and
\* the entry is taken out, whether the process terminates or not
KillByName(reg, ps, name) ==
    LET hit == {reg[i] : i \in EntriesOf(reg, name)}
    IN  [reg   |-> RegWithout(reg, hit),
         procs |-> [p \in 1..Len(ps) |->
                      IF \E e \in hit : e.proc = p
                      THEN [ps[p] EXCEPT !.killed = TRUE]
                      ELSE ps[p]]]

\* registering that appends and leaves a prior entry of the name alone
RegisterAppend(reg, ps, name, p) ==
    [reg |-> Append(reg, [name |-> name, proc |-> p]), procs |-> ps]

\* registering a run of a name: the new run takes the place of a prior entry
\* of that name, whose process is left to run (it is cancelled by KillByName
\* only)
Register(reg, ps, name, p) ==
    [reg   |-> Append(RegWithout(reg, {reg[i] : i \in EntriesOf(reg, name)}),
                      [name |-> name, proc |-> p]),
     procs |-> ps]

\* a piece of output of a process, and the error text of a failed launch
Chunk(p, k) == [proc |-> p, k |-> k]

LaunchError(p) == [proc |-> p, k |-> 0]

\* BindArgVars: its locals and its history
expVars == <<arg, bs, ci, sz, gotquote, result, lastTok>>

\* a process as it is started from the chain being run
NewProc(st) ==
    [name |-> cmd, buf |-> CmdBufs[cmd], out |-> 0, state |-> st,
     killed |-> FALSE, chain |-> cur, pos |-> chains[cur].pos + 1]

\* the chain being run after an iteration: the name is done with, and the
\* chain waits for the given process, or for none
Advance(w) ==
    [chains EXCEPT ![cur].names = Tail(@), ![cur].pos = @ + 1, ![cur].wait = w]

\* a runner that waits for no command
WaitsNever(name) == FALSE

\* the runner waits for the process of the command to exit before it returns
Waits(name) == CmdByName(name).Wait

\* a runner that holds the control thread while it waits for the process
RunStartBlocks ==
    /\ pc = "done"
    /\ cur # 0
    /\ LET p == Len(procs) + 1
           r == Register(RunningCmds, procs, cmd, p)
       IN  /\ RunningCmds' = r.reg
           /\ procs' = Append(r.procs, NewProc("running"))
           /\ bufs' = [bufs EXCEPT ![CmdBufs[cmd]].settled = FALSE]
           /\ IF Waits(cmd)
              THEN /\ chains' = Advance(p)
                   /\ pc' = "call"
                   /\ cur' = cur
              ELSE /\ chains' = Advance(0)
                   /\ pc' = "iter"
                   /\ cur' = cur
    /\ cmd' = ""
    /\ memo' = [memo EXCEPT !.old = memo.set]
    /\ UNCHANGED <<platform, ArgVarVals, expVars, ctx, rebuiltTV, answer,
                   VersCtrl, uiVars, ChangeLog, saveVars, notice, CmdBufs, tabs>>

\* the command runner once the arguments are expanded: the process is
\* started and registered, its buffer is live again; a chain whose command has
\* Wait set is suspended until the process has exited
RunStart ==
    /\ pc = "done"
    /\ cur # 0
    /\ LET p == Len(procs) + 1
           r == Register(RunningCmds, procs, cmd, p)
       IN  /\ RunningCmds' = r.reg
           /\ procs' = Append(r.procs, NewProc("running"))
           /\ bufs' = [bufs EXCEPT ![CmdBufs[cmd]].settled = FALSE]
           /\ IF Waits(cmd)
              THEN /\ chains' = Advance(p)
                   /\ pc' = "idle"
                   /\ cur' = 0
              ELSE /\ chains' = Advance(0)
                   /\ pc' = "iter"
                   /\ cur' = cur
    /\ cmd' = ""
    /\ memo' = [memo EXCEPT !.old = memo.set]
    /\ UNCHANGED <<platform, ArgVarVals, expVars, ctx, rebuiltTV, answer,
                   VersCtrl, uiVars, ChangeLog, saveVars, notice, CmdBufs, tabs>>

\* a failed launch that reports nothing in the buffer
RunFailSilent ==
    /\ pc = "done"
    /\ cur # 0
    /\ procs' = Append(procs, NewProc("failed"))
    /\ bufs' = [bufs EXCEPT ![CmdBufs[cmd]].settled = TRUE]
    /\ chains' = Advance(0)
    /\ pc' = "iter"
    /\ cmd' = ""
    /\ memo' = [memo EXCEPT !.old = memo.set]
    /\ UNCHANGED <<platform, ArgVarVals, expVars, ctx, rebuiltTV, answer,
                   VersCtrl, uiVars, ChangeLog, saveVars, notice, CmdBufs, tabs, RunningCmds,
                   cur>>

\* the command runner when the program cannot be launched: the error text is
\* appended to the buffer, nothing is registered and the run is over
RunFail ==
    /\ pc = "done"
    /\ cur # 0
    /\ procs' = Append(procs, NewProc("failed"))
    /\ bufs' = [bufs EXCEPT ![CmdBufs[cmd]].text = Append(@, LaunchError(Len(procs) + 1)),
                            ![CmdBufs[cmd]].settled = TRUE]
    /\ chains' = Advance(0)
    /\ pc' = "iter"
    /\ cmd' = ""
    /\ memo' = [memo EXCEPT !.old = memo.set]
    /\ UNCHANGED <<platform, ArgVarVals, expVars, ctx, rebuiltTV, answer,
                   VersCtrl, uiVars, ChangeLog, saveVars, notice, CmdBufs, tabs, RunningCmds,
                   cur>>

\* the control thread is in the event loop: no handler runs, a dialog may be
\* open
InEventLoop == pc \in {"idle", "dialog", "savedlg"}

\* how many pieces the process of a command writes at most: the stream of
\* "Echo" is one piece longer than the others
OutPieces(name) == IF name = "Echo" THEN MaxOut + 1 ELSE MaxOut

\* output that is put in front of the text of the buffer
ProcOutputFront ==
    /\ InEventLoop
    /\ \E p \in 1..Len(procs) :
          /\ procs[p].state = "running"
          /\ procs[p].out < OutPieces(procs[p].name)
          /\ procs' = [procs EXCEPT ![p].out = @ + 1]
          /\ bufs' = [bufs EXCEPT ![procs[p].buf].text =
                                      <<Chunk(p, procs[p].out + 1)>> \o @]
    /\ UNCHANGED <<platform, ArgVarVals, pc, expVars, ctx, rebuiltTV, cmd,
                   answer, VersCtrl, uiVars, ChangeLog, saveVars, notice, CmdBufs, tabs,
                   RunningCmds, chains, cur, memo>>

\* a running process writes a piece of output, which is appended to its buffer
ProcOutput ==
    /\ InEventLoop
    /\ \E p \in 1..Len(procs) :
          /\ procs[p].state = "running"
          /\ procs[p].out < OutPieces(procs[p].name)
          /\ procs' = [procs EXCEPT ![p].out = @ + 1]
          /\ bufs' = [bufs EXCEPT ![procs[p].buf].text =
                                      Append(@, Chunk(p, procs[p].out + 1))]
    /\ UNCHANGED <<platform, ArgVarVals, pc, expVars, ctx, rebuiltTV, cmd,
                   answer, VersCtrl, uiVars, ChangeLog, saveVars, notice, CmdBufs, tabs,
                   RunningCmds, chains, cur, memo>>

\* an exit that leaves the entry of the process in the registry
ProcExitKeeps ==
    /\ InEventLoop
    /\ \E p \in 1..Len(procs) :
          /\ procs[p].state = "running"
          /\ procs' = [procs EXCEPT ![p].state = "exited"]
          /\ bufs' = [bufs EXCEPT ![procs[p].buf].settled = TRUE]
    /\ UNCHANGED <<platform, ArgVarVals, pc, expVars, ctx, rebuiltTV, cmd,
                   answer, VersCtrl, uiVars, ChangeLog, saveVars, notice, CmdBufs, tabs,
                   RunningCmds, chains, cur, memo>>

\* a running process exits: its entry is taken out of the registry and its
\* buffer is settled
ProcExit ==
    /\ InEventLoop
    /\ \E p \in 1..Len(procs) :
          /\ procs[p].state = "running"
          /\ procs' = [procs EXCEPT ![p].state = "exited"]
          /\ RunningCmds' =
                RegWithout(RunningCmds,
                           {RunningCmds[i] : i \in {j \in 1..Len(RunningCmds) :
                                                      RunningCmds[j].proc = p}})
          /\ bufs' = [bufs EXCEPT ![procs[p].buf].settled = TRUE]
    /\ UNCHANGED <<platform, ArgVarVals, pc, expVars, ctx, rebuiltTV, cmd,
                   answer, VersCtrl, uiVars, ChangeLog, saveVars, notice, CmdBufs, tabs, chains,
                   cur, memo>>

(***************************************************************************)
(* Gide: the chains of commands and the tabs.                              *)
(***************************************************************************)
\* a call of ExecCmds, ExecCmdsFileNode or ExecCmdName that is not over: the
\* names still to run, clearBuf, the process waited for or 0, how many names
\* are done with, the handler it is called by, how the check of SaveAllCheck
\* has gone for it, whether it is run on a file node, where the control
\* thread goes on when its loop is over, and whether the buffer of the file
\* node was reverted after it, with a process of it still running ("early")
\* or with none ("after"); list is the list of names it was called with
Chain(names, clearBuf, by, f) ==
    [names |-> names, clear |-> clearBuf, wait |-> 0, pos |-> 0, by |-> by,
     check |-> f.check, fn |-> FALSE, then |-> "idle", revert |-> "none",
     list |-> names]

\* the lists of names ExecCmds is called with; "Lint" is no command of the
\* catalog
ChainInputs ==
    {<<"Build", "Open File">>, <<"Open File">>, <<"Lint", "Echo">>,
     <<"Commit All">>, <<"Awk">>}

\* how many names the chains have still to run
RECURSIVE Pending(_)
Pending(cs) == IF cs = <<>> THEN 0 ELSE Len(Head(cs).names) + Pending(Tail(cs))

\* Gide.ExecCmds is called: its loop is entered
ExecCmds ==
    /\ pc = "idle"
    /\ Len(chains) < MaxChains
    /\ \E names \in ChainInputs, clearBuf \in BOOLEAN :
          /\ Len(procs) + Pending(chains) + Len(names) <= MaxProcs
          /\ chains' = Append(chains, Chain(names, clearBuf, "Run", NoFun))
    /\ cur' = Len(chains) + 1
    /\ pc' = "iter"
    /\ UNCHANGED <<platform, ArgVarVals, expVars, ctx, rebuiltTV, cmd, answer,
                   VersCtrl, uiVars, ChangeLog, saveVars, notice, CmdBufs, bufs, tabs,
                   RunningCmds, procs, memo>>

\* an iteration of the loop of ExecCmds on a name of the catalog: ExecCmdName
\* rebuilds the map, finds or makes the buffer and the tab and runs the command
ExecCmdsIter ==
    /\ pc = "iter"
    /\ chains[cur].names # <<>>
    /\ ~chains[cur].fn
    /\ ExecCmdName(Head(chains[cur].names), ArgVarVals, NoAnswer)
    /\ FindOrMakeCmdTab(Head(chains[cur].names), chains[cur].clear)
    /\ UNCHANGED <<VersCtrl, uiVars, ChangeLog, saveVars, notice, RunningCmds, procs, chains,
                   cur>>

\* an iteration on a name that is not in the catalog which makes the buffer
\* and the tab of the name all the same
ExecCmdsMissingTab ==
    /\ pc = "iter"
    /\ chains[cur].names # <<>>
    /\ Head(chains[cur].names) \notin CmdNames
    /\ chains' = Advance(0)
    /\ tabs' = tabs \cup {Head(chains[cur].names)}
    /\ UNCHANGED <<platform, ArgVarVals, pc, expVars, ctx, rebuiltTV, cmd,
                   answer, VersCtrl, uiVars, ChangeLog, saveVars, notice, CmdBufs, bufs,
                   RunningCmds, procs, cur, memo>>

\* a name that is not in the catalog ends the chain
ExecCmdsMissingStops ==
    /\ pc = "iter"
    /\ chains[cur].names # <<>>
    /\ Head(chains[cur].names) \notin CmdNames
    /\ pc' = chains[cur].then
    /\ cur' = 0
    /\ UNCHANGED <<platform, ArgVarVals, expVars, ctx, rebuiltTV, cmd,
                   answer, VersCtrl, uiVars, ChangeLog, saveVars, notice, CmdBufs, bufs,
                   tabs, RunningCmds, procs, chains, memo>>

\* an iteration on a name that is not in the catalog: ExecCmdName returns
ExecCmdsMissing ==
    /\ pc = "iter"
    /\ chains[cur].names # <<>>
    /\ Head(chains[cur].names) \notin CmdNames
    /\ chains' = Advance(0)
    /\ UNCHANGED <<platform, ArgVarVals, pc, expVars, ctx, rebuiltTV, cmd,
                   answer, VersCtrl, uiVars, ChangeLog, saveVars, notice, CmdBufs, bufs, tabs,
                   RunningCmds, procs, cur, memo>>

\* the loop of ExecCmds is over
ExecCmdsEnd ==
    /\ pc = "iter"
    /\ chains[cur].names = <<>>
    /\ ~chains[cur].fn
    /\ pc' = chains[cur].then
    /\ cur' = 0
    /\ UNCHANGED <<platform, ArgVarVals, expVars, ctx, rebuiltTV, cmd, answer,
                   VersCtrl, uiVars, ChangeLog, saveVars, notice, CmdBufs, bufs, tabs,
                   RunningCmds, procs, chains, memo>>

\* the process a chain waits for is over: the chain goes on
ExecCmdsResume ==
    /\ pc = "idle"
    /\ \E c \in 1..Len(chains) :
          /\ chains[c].wait # 0
          /\ procs[chains[c].wait].state # "running"
          /\ chains' = [chains EXCEPT ![c].wait = 0]
          /\ cur' = c
    /\ pc' = "iter"
    /\ UNCHANGED <<platform, ArgVarVals, expVars, ctx, rebuiltTV, cmd, answer,
                   VersCtrl, uiVars, ChangeLog, saveVars, notice, CmdBufs, bufs, tabs,
                   RunningCmds, procs, memo>>

\* the commit dialog is accepted, the buffers and processes followed: the
\* message is written into the map and added to the change log, and
\* ExecCmdName(cmdnm, true, true) is called, which is a chain of one name
DialogAcceptedRun ==
    /\ pc = "dialog"
    /\ Len(chains) < MaxChains
    /\ Len(procs) + Pending(chains) < MaxProcs
    /\ \E msg \in Messages :
          /\ ExecCmdName(cmd, MapSet(ArgVarVals, V_PromptString1, msg), Answer(msg))
          /\ ChangeLog' = Append(ChangeLog, msg)
    /\ FindOrMakeCmdTab(cmd, TRUE)
    /\ chains' = Append(chains, Chain(<<cmd>>, TRUE, "Commit", fun))
    /\ cur' = Len(chains) + 1
    /\ UNCHANGED <<VersCtrl, uiVars, notice, RunningCmds, procs, saveVars>>

\* a closed tab that empties the buffer of its command
MainTabDeletedClears ==
    /\ pc = "idle"
    /\ \E tabnm \in tabs :
          /\ tabs' = tabs \ {tabnm}
          /\ RunningCmds' = KillByName(RunningCmds, procs, tabnm).reg
          /\ procs' = KillByName(RunningCmds, procs, tabnm).procs
          /\ bufs' = IF tabnm \in DOMAIN CmdBufs
                     THEN [bufs EXCEPT ![CmdBufs[tabnm]].text = <<>>]
                     ELSE bufs
    /\ UNCHANGED <<platform, ArgVarVals, pc, expVars, ctx, rebuiltTV, cmd,
                   answer, VersCtrl, uiVars, ChangeLog, saveVars, notice, CmdBufs, chains,
                   cur, memo>>

\* a closed tab that ends every running command
MainTabDeletedAll ==
    /\ pc = "idle"
    /\ \E tabnm \in tabs :
          /\ tabs' = tabs \ {tabnm}
          /\ RunningCmds' = <<>>
          /\ procs' = [p \in 1..Len(procs) |->
                          IF p \in {RunningCmds[i].proc : i \in 1..Len(RunningCmds)}
                          THEN [procs[p] EXCEPT !.killed = TRUE]
                          ELSE procs[p]]
    /\ UNCHANGED <<platform, ArgVarVals, pc, expVars, ctx, rebuiltTV, cmd,
                   answer, VersCtrl, uiVars, ChangeLog, saveVars, notice, CmdBufs, bufs, chains,
                   cur, memo>>

\* Gide.MainTabDeleted: the user has closed an output tab
MainTabDeleted ==
    /\ pc = "idle"
    /\ \E tabnm \in tabs :
          /\ tabs' = tabs \ {tabnm}
          /\ RunningCmds' = KillByName(RunningCmds, procs, tabnm).reg
          /\ procs' = KillByName(RunningCmds, procs, tabnm).procs
    /\ UNCHANGED <<platform, ArgVarVals, pc, expVars, ctx, rebuiltTV, cmd,
                   answer, VersCtrl, uiVars, ChangeLog, saveVars, notice, CmdBufs, bufs, chains,
                   cur, memo>>

(***************************************************************************)
(* SpecRun: chains of commands run from one view of one project, with      *)
(* their buffers, tabs and processes.                                      *)
(***************************************************************************)
\* a view of main.go in the project
MainView(plat) ==
    [tv |-> SampleTV, hasBuf |-> TRUE,
     Filename |-> <<Separator(plat), "p", Separator(plat)>> \o MainGo]

InitRun ==
    /\ Init
    /\ platform = "linux"
    /\ ctx = MainView(platform)
    /\ VersCtrl \in {"", "Git"}

NextRun ==
    \/ ExecCmds
    \/ ExecCmdsIter
    \/ ExecCmdsMissing
    \/ ExecCmdsEnd
    \/ ExecCmdsResume
    \/ BindArgVars
    \/ RunStart
    \/ RunFail
    \/ ProcOutput
    \/ ProcExit
    \/ MainTabDeleted
    \/ CommitNoChecks
    \/ DialogAcceptedRun
    \/ DialogCanceled

SpecRun == InitRun /\ [][NextRun]_vars

(***************************************************************************)
(* Gide: the handlers that check for unsaved files first.                  *)
(***************************************************************************)
\* how many open files have unsaved changes at a time
MaxChanged == 1
\* how many names the command history takes
MaxHist == 1
\* how many processes are started in a behaviour with unsaved files
MaxSaveProcs == 2

\* what the handlers of this section leave alone
cmdVars ==
    <<platform, ArgVarVals, expVars, ctx, rebuiltTV, cmd, answer, VersCtrl, uiVars, memo>>

procVars == <<CmdBufs, bufs, tabs, RunningCmds, procs>>

\* AvailLangs[lang].PostSaveCmds: the commands run on a file after it is
\* saved; "Lint" is no command of the catalog
PostSaveCmds(lang) == IF lang = "Go" THEN <<"Lint", "Open File">> ELSE <<>>

\* the open files are those of the view: main.go of the project
NodePath == ctx.Filename

NodeLang == ActiveLang(ctx)

\* ge.Prefs.BuildCmds and ge.Prefs.RunCmds as the preferences may have them
BuildInputs == {<<>>, <<"Build", "Open File">>}

RunInputs == {<<>>, <<"Lint", "Echo">>, <<"Commit All">>, <<"Awk">>}

\* the function a handler gives to SaveAllCheck
Fun(kind, names, by, cancelOpt) ==
    [kind |-> kind, names |-> names, by |-> by, cancelOpt |-> cancelOpt,
     check |-> "unchecked"]

\* there is room for the names, and for the post-save commands of the
\* unsaved files, in the chains and processes of a behaviour
Room(names) ==
    LET post == Len(SelectSeq(PostSaveCmds(NodeLang), LAMBDA n : n \in CmdNames))
    IN  /\ Len(chains) + 1 + (IF post > 0 THEN nch ELSE 0) <= MaxChains
        /\ Len(procs) + Pending(chains) + Len(names) + nch * post <= MaxSaveProcs

\* a check that asks nothing and goes on to the function
SaveAllCheckSkip(f) ==
    /\ fun' = [f EXCEPT !.check = IF nch = 0 THEN "clean" ELSE "asked"]
    /\ pc' = "call"

\* Gide.SaveAllCheck up to its dialog: with no unsaved file the function is
\* called at once, else the choice is asked for
SaveAllCheck(f) ==
    IF nch = 0
    THEN /\ fun' = [f EXCEPT !.check = "clean"]
         /\ pc' = "call"
    ELSE /\ fun' = [f EXCEPT !.check = "asked"]
         /\ pc' = "savedlg"

\* the user changes an open file
FileEdited ==
    /\ pc = "idle"
    /\ nch < MaxChanged
    /\ nch' = nch + 1
    /\ UNCHANGED <<cmdVars, pc, notice, procVars, chains, cur, ChangeLog, fun,
                   CmdHistory>>

\* Gide.Build
Build ==
    /\ pc = "idle"
    /\ \E names \in BuildInputs :
          IF names = <<>>
          THEN /\ notice' = "No BuildCmds Set"
               /\ UNCHANGED <<pc, fun>>
          ELSE /\ Room(names)
               /\ SaveAllCheck(Fun("ExecCmds", names, "Build", TRUE))
               /\ notice' = notice
    /\ UNCHANGED <<cmdVars, procVars, chains, cur, ChangeLog, nch, CmdHistory>>

\* Gide.Run
Run ==
    /\ pc = "idle"
    /\ \E names \in RunInputs :
          IF names = <<>>
          THEN /\ notice' = "No RunCmds Set"
               /\ UNCHANGED <<pc, chains, cur>>
          ELSE /\ Len(chains) < MaxChains
               /\ Len(procs) + Pending(chains) + Len(names) <= MaxSaveProcs
               /\ chains' = Append(chains, Chain(names, TRUE, "Run", NoFun))
               /\ cur' = Len(chains) + 1
               /\ pc' = "iter"
               /\ notice' = notice
    /\ UNCHANGED <<cmdVars, procVars, ChangeLog, saveVars>>

\* a Commit that does not look at the version-control system
CommitUnguarded ==
    /\ pc = "idle"
    /\ Room(<<"Commit">>)
    /\ SaveAllCheck(Fun("CommitNoChecks", <<>>, "Commit", TRUE))
    /\ notice' = notice
    /\ UNCHANGED <<cmdVars, procVars, chains, cur, ChangeLog, nch, CmdHistory>>

\* Gide.Commit
Commit ==
    /\ pc = "idle"
    /\ IF VersCtrl = ""
       THEN /\ notice' = "No VersCtrl Set"
            /\ UNCHANGED <<pc, fun>>
       ELSE /\ Room(<<"Commit">>)
            /\ SaveAllCheck(Fun("CommitNoChecks", <<>>, "Commit", TRUE))
            /\ notice' = notice
    /\ UNCHANGED <<cmdVars, procVars, chains, cur, ChangeLog, nch, CmdHistory>>

\* Gide.ExecCmdNameActive
ExecCmdNameActive ==
    /\ pc = "idle"
    /\ ctx.tv # NilTV
    /\ \E cmdNm \in {"Open File"} :
          /\ Room(<<cmdNm>>)
          /\ SaveAllCheck(Fun("ExecCmds", <<cmdNm>>, "Active", TRUE))
    /\ UNCHANGED <<cmdVars, notice, procVars, chains, cur, ChangeLog, nch,
                   CmdHistory>>

\* Gide.ExecCmd once a name is picked in the chooser: the name is added to
\* the history and the command is executed behind the check
ExecCmdChooser ==
    /\ pc = "idle"
    /\ ctx.tv # NilTV
    /\ Len(CmdHistory) < MaxHist
    /\ \E i \in 1..Len(GideExecCmds(ctx, VersCtrl)) :
          LET cmdNm == GideExecCmds(ctx, VersCtrl)[i]
          IN  /\ cmdNm \in {"Build", "Echo"}
              /\ Room(<<cmdNm>>)
              /\ CmdHistory' = Append(CmdHistory, cmdNm)
              /\ SaveAllCheck(Fun("ExecCmds", <<cmdNm>>, "Chooser", TRUE))
    /\ UNCHANGED <<cmdVars, notice, procVars, chains, cur, ChangeLog, nch>>

\* Gide.SaveProjAs with saveAllFiles: SaveAllCheck(false, nil)
SaveProjAs ==
    /\ pc = "idle"
    /\ Room(<<>>)
    /\ SaveAllCheck(Fun("nil", <<>>, "SaveProjAs", FALSE))
    /\ UNCHANGED <<cmdVars, notice, procVars, chains, cur, ChangeLog, nch,
                   CmdHistory>>

\* the choice dialog of SaveAllCheck: "Save All"
ChoiceSaveAll ==
    /\ pc = "savedlg"
    /\ fun' = [fun EXCEPT !.check = "saved"]
    /\ pc' = "saving"
    /\ UNCHANGED <<cmdVars, notice, procVars, chains, cur, ChangeLog, nch,
                   CmdHistory>>

\* "Don't Save"
ChoiceDontSave ==
    /\ pc = "savedlg"
    /\ fun' = [fun EXCEPT !.check = "unsaved"]
    /\ pc' = "call"
    /\ UNCHANGED <<cmdVars, notice, procVars, chains, cur, ChangeLog, nch,
                   CmdHistory>>

\* a "Cancel Command" after which the function is called all the same
ChoiceCancelCalls ==
    /\ pc = "savedlg"
    /\ fun.cancelOpt
    /\ fun' = fun
    /\ pc' = "call"
    /\ UNCHANGED <<cmdVars, notice, procVars, chains, cur, ChangeLog, nch,
                   CmdHistory>>

\* "Cancel Command", when it is offered: the function is not called
ChoiceCancel ==
    /\ pc = "savedlg"
    /\ fun.cancelOpt
    /\ fun' = NoFun
    /\ pc' = "idle"
    /\ UNCHANGED <<cmdVars, notice, procVars, chains, cur, ChangeLog, nch,
                   CmdHistory>>

\* Gide.SaveAllOpenNodes, an iteration on a changed file: the file is saved
\* and RunPostCmdsFileNode runs the post-save commands of its language on it
SaveAllOpenNodes ==
    /\ pc = "saving"
    /\ nch > 0
    /\ nch' = nch - 1
    /\ IF PostSaveCmds(NodeLang) = <<>>
       THEN UNCHANGED <<pc, chains, cur>>
       ELSE /\ chains' = Append(chains,
                            [Chain(PostSaveCmds(NodeLang), TRUE, "PostSave", NoFun)
                               EXCEPT !.fn = TRUE, !.then = "saving"])
            /\ cur' = Len(chains) + 1
            /\ pc' = "iter"
    /\ UNCHANGED <<cmdVars, notice, procVars, ChangeLog, fun, CmdHistory>>

\* the loop of SaveAllOpenNodes is over: SaveAllCheck goes on to its function
SaveAllOpenNodesEnd ==
    /\ pc = "saving"
    /\ nch = 0
    /\ pc' = "call"
    /\ UNCHANGED <<cmdVars, notice, procVars, chains, cur, ChangeLog, saveVars>>

\* an iteration of the loop of ExecCmdsFileNode: ExecCmdNameFileNode rebuilds
\* the map for the path of the node, without editor
ExecCmdsFileNodeIter ==
    /\ pc = "iter"
    /\ chains[cur].names # <<>>
    /\ chains[cur].fn
    /\ Head(chains[cur].names) \in CmdNames
    /\ \E proj \in ProjPaths(platform) :
          ArgVarVals' = SetArgVarVals(platform, ArgVarVals, NodePath, proj, NilTV)
    /\ cmd' = Head(chains[cur].names)
    /\ BindEnter(CmdByName(Head(chains[cur].names)).Arg)
    /\ answer' = NoAnswer
    /\ rebuiltTV' = NilTV
    /\ FindOrMakeCmdTab(Head(chains[cur].names), chains[cur].clear)
    /\ UNCHANGED <<platform, ctx, memo, VersCtrl, uiVars, notice, RunningCmds, procs,
                   chains, cur, ChangeLog, saveVars>>

\* the processes of a chain that still run
RunningOf(c) ==
    {p \in 1..Len(procs) : procs[p].chain = c /\ procs[p].state = "running"}

\* Gide.RunPostCmdsFileNode once ExecCmdsFileNode has returned: the buffer of
\* the file is reverted, that is read from the disk again, whether or not a
\* process of the post-save commands still runs and may yet write the file
RunPostCmdsRevert ==
    /\ pc = "iter"
    /\ chains[cur].names = <<>>
    /\ chains[cur].fn
    /\ chains' = [chains EXCEPT ![cur].revert =
                      IF RunningOf(cur) = {} THEN "after" ELSE "early"]
    /\ pc' = chains[cur].then
    /\ cur' = 0
    /\ UNCHANGED <<cmdVars, notice, procVars, ChangeLog, saveVars>>

\* SaveAllCheck calls its function: ExecCmds, or ExecCmdName for one name
CallExecCmds ==
    /\ pc = "call"
    /\ fun.kind = "ExecCmds"
    /\ chains' = Append(chains, Chain(fun.names, TRUE, fun.by, fun))
    /\ cur' = Len(chains) + 1
    /\ pc' = "iter"
    /\ fun' = NoFun
    /\ UNCHANGED <<cmdVars, notice, procVars, ChangeLog, nch, CmdHistory>>

\* SaveAllCheck calls its function: CommitNoChecks
CallCommitNoChecks ==
    /\ pc = "call"
    /\ fun.kind = "CommitNoChecks"
    /\ CommitNoChecksBody
    /\ UNCHANGED <<procVars, chains, cur, ChangeLog, saveVars>>

\* SaveAllCheck was given no function
CallNil ==
    /\ pc = "call"
    /\ fun.kind = "nil"
    /\ pc' = "idle"
    /\ fun' = NoFun
    /\ UNCHANGED <<cmdVars, notice, procVars, chains, cur, ChangeLog, nch,
                   CmdHistory>>

(***************************************************************************)
(* SpecSave: Build, Run, Commit, the chooser and ExecCmdNameActive on a    *)
(* project with files that are changed and saved.                          *)
(***************************************************************************)
NextSave ==
    \/ FileEdited
    \/ Build
    \/ Run
    \/ Commit
    \/ ExecCmdNameActive
    \/ ExecCmdChooser
    \/ SaveProjAs
    \/ ChoiceSaveAll
    \/ ChoiceDontSave
    \/ ChoiceCancel
    \/ SaveAllOpenNodes
    \/ SaveAllOpenNodesEnd
    \/ CallExecCmds
    \/ CallCommitNoChecks
    \/ CallNil
    \/ DialogAcceptedRun
    \/ DialogCanceled
    \/ ExecCmdsIter
    \/ ExecCmdsFileNodeIter
    \/ RunPostCmdsRevert
    \/ ExecCmdsMissing
    \/ ExecCmdsEnd
    \/ ExecCmdsResume
    \/ BindArgVars
    \/ RunStart
    \/ RunFail
    \/ ProcOutput
    \/ ProcExit
    \/ MainTabDeleted

SpecSave == InitRun /\ [][NextSave]_vars
(***************************************************************************)
(* Key chords and panels: GideKeys, FocusNextPanel and FocusPrevPanel.     *)
(***************************************************************************)
\* the chords the user presses
Chords == {"Control+X", "o", "p", "Control+F", "Control+J", "Escape"}

\* the active key map of gide: a sequence of one or two chords -> its function
ActiveKeyMap ==
    [ks \in {<<"Control+X", "o">>, <<"Control+X", "p">>,
             <<"Control+X", "Control+F">>, <<"Control+X", "Control+J">>,
             <<"Control+X", "Escape">>, <<"Control+J", "">>} |->
        CASE ks = <<"Control+X", "o">> -> "NextPanel"
          [] ks = <<"Control+X", "p">> -> "PrevPanel"
          [] ks = <<"Control+X", "Control+F">> -> "FileOpen"
          [] ks = <<"Control+X", "Control+J">> -> "CommentOut"
          [] ks = <<"Control+X", "Escape">> -> "BufClose"
          [] ks = <<"Control+J", "">> -> "Jump"]

\* gide.KeyFun: the function of the sequence, "Needs2" for a first chord
\* that starts a sequence of two, "Nil" when the map has none
KeyFun(key1, key2) ==
    IF key1 # "" /\ key2 = "" /\ \E ks \in DOMAIN ActiveKeyMap : ks[1] = key1 /\ ks[2] # ""
    THEN "Needs2"
    ELSE IF key1 # "" /\ <<key1, key2>> \in DOMAIN ActiveKeyMap
         THEN ActiveKeyMap[<<key1, key2>>]
         ELSE "Nil"

\* gi.KeyFun: the function of the chord in the key map of the toolkit
GiKeyFun(kc) ==
    CASE kc = "Control+F" -> "Find"
      [] kc = "Escape" -> "Abort"
      [] OTHER -> "Nil"

\* the cases of the switch on the gide function and the methods each calls
\* (the key map above binds no chord to BuildProj or RunProj)
KeyCases ==
    [kf \in {"NextPanel", "PrevPanel", "FileOpen", "BufSelect", "BufClone",
             "BufSave", "BufSaveAs", "BufClose", "ExecCmd", "RegCopy",
             "RegPaste", "CommentOut", "Indent", "Jump", "SetSplit",
             "BuildProj", "RunProj"} |->
        CASE kf = "NextPanel" -> <<"FocusNextPanel">>
          [] kf = "PrevPanel" -> <<"FocusPrevPanel">>
          [] kf = "FileOpen" -> <<"ViewFile">>
          [] kf = "BufSelect" -> <<"SelectOpenNode">>
          [] kf = "BufClone" -> <<"CloneActiveView">>
          [] kf = "BufSave" -> <<"SaveActiveView">>
          [] kf = "BufSaveAs" -> <<"SaveActiveViewAs">>
          [] kf = "BufClose" -> <<"CloseActiveView">>
          [] kf = "ExecCmd" -> <<"ExecCmd">>
          [] kf = "RegCopy" -> <<"RegisterCopy">>
          [] kf = "RegPaste" -> <<"RegisterPaste">>
          [] kf = "CommentOut" -> <<"CommentOut">>
          [] kf = "Indent" -> <<"Indent">>
          [] kf = "Jump" -> <<"JumpToLinePrompt", "Indent">>
          [] kf = "SetSplit" -> <<"SplitsSetView">>
          [] kf = "BuildProj" -> <<"Build">>
          [] kf = "RunProj" -> <<"Run">>]

\* what the panels and the key handler neither read nor write
progVars ==
    <<platform, ArgVarVals, expVars, rebuiltTV, cmd, answer, VersCtrl, notice,
      outVars, memo>>

\* the test of the splitter on a panel: it is collapsed
Collapsed(panel) == Splits[panel] <= 10

\* Gide.CurPanel: the panel that holds the keyboard focus, or -1
CurPanel == focus

\* the file shown in each of the two text views
TextViewByIndex(idx) ==
    IF idx = 0
    THEN MainView(platform)
    ELSE [tv |-> SelectTV, hasBuf |-> TRUE, Filename |-> MainView(platform).Filename]

\* Gide.FocusNextPanel up to its loop: the panel after the current one
FocusNextPanel ==
    /\ cp' = IF CurPanel + 1 >= Cardinality(Panels) THEN 0 ELSE CurPanel + 1
    /\ tested' = {}
    /\ pc' = "nextpanel"
    /\ UNCHANGED <<Splits, focus, curTab, ctx>>

\* Gide.FocusPrevPanel up to its loop: the panel before the current one
FocusPrevPanel ==
    /\ cp' = IF CurPanel - 1 < 0 THEN Cardinality(Panels) - 1 ELSE CurPanel - 1
    /\ tested' = {}
    /\ pc' = "prevpanel"
    /\ UNCHANGED <<Splits, focus, curTab, ctx>>

\* the rest of GideKeys once the two functions of the event are known: the
\* switch on the function of the toolkit, then the switch on the function of
\* gide when the event is not processed yet
Dispatch(kc, kf, gkf, status) ==
    IF gkf = "Find"
    THEN /\ kt' = [chord |-> kc, processed |-> TRUE, gkf |-> "Find", kf |-> "Nil",
                   calls |-> <<"Find">>, status |-> status, seq |-> KeySeq1]
         /\ UNCHANGED <<pc, Splits, focus, curTab, cp, tested, ctx>>
    ELSE IF kf \in DOMAIN KeyCases
         THEN /\ kt' = [chord |-> kc, processed |-> TRUE, gkf |-> "Nil", kf |-> kf,
                        calls |-> KeyCases[kf], status |-> status, seq |-> KeySeq1]
              /\ CASE kf = "NextPanel" -> FocusNextPanel
                   [] kf = "PrevPanel" -> FocusPrevPanel
                   [] OTHER -> UNCHANGED <<pc, Splits, focus, curTab, cp, tested, ctx>>
         ELSE /\ kt' = [chord |-> kc, processed |-> FALSE, gkf |-> "Nil", kf |-> "Nil",
                        calls |-> <<>>, status |-> status, seq |-> KeySeq1]
              /\ UNCHANGED <<pc, Splits, focus, curTab, cp, tested, ctx>>

\* a variant of KeySeqSecond that leaves the first chord in KeySeq1 when
\* the sequence is complete
KeySeqSecondKeeps(kc) ==
    IF KeyFun(KeySeq1, kc) = "Nil" \/ kc = "Escape"
    THEN /\ kt' = [chord |-> kc, processed |-> TRUE, gkf |-> "Nil", kf |-> "Nil",
                   calls |-> <<>>, status |-> <<KeySeq1, kc, "aborted">>,
                   seq |-> KeySeq1]
         /\ KeySeq1' = ""
         /\ UNCHANGED <<pc, Splits, focus, curTab, cp, tested, ctx>>
    ELSE /\ KeySeq1' = KeySeq1
         /\ Dispatch(kc, KeyFun(KeySeq1, kc), "Nil", <<KeySeq1, kc>>)

\* a variant of KeySeqSecond that does not override the function of the
\* toolkit when the sequence is complete
KeySeqSecondNoOverride(kc) ==
    IF KeyFun(KeySeq1, kc) = "Nil" \/ kc = "Escape"
    THEN /\ kt' = [chord |-> kc, processed |-> TRUE, gkf |-> "Nil", kf |-> "Nil",
                   calls |-> <<>>, status |-> <<KeySeq1, kc, "aborted">>,
                   seq |-> KeySeq1]
         /\ KeySeq1' = ""
         /\ UNCHANGED <<pc, Splits, focus, curTab, cp, tested, ctx>>
    ELSE /\ KeySeq1' = ""
         /\ Dispatch(kc, KeyFun(KeySeq1, kc), GiKeyFun(kc), <<KeySeq1, kc>>)

\* GideKeys when KeySeq1 holds a first chord: an Escape, or a pair with no
\* function, aborts the sequence; else the function of the pair is
\* dispatched; KeySeq1 is emptied in both cases
KeySeqSecond(kc) ==
    IF KeyFun(KeySeq1, kc) = "Nil" \/ kc = "Escape"
    THEN /\ kt' = [chord |-> kc, processed |-> TRUE, gkf |-> "Nil", kf |-> "Nil",
                   calls |-> <<>>, status |-> <<KeySeq1, kc, "aborted">>,
                   seq |-> KeySeq1]
         /\ KeySeq1' = ""
         /\ UNCHANGED <<pc, Splits, focus, curTab, cp, tested, ctx>>
    ELSE /\ KeySeq1' = ""
         /\ Dispatch(kc, KeyFun(KeySeq1, kc), "Nil", <<KeySeq1, kc>>)

\* GideKeys when KeySeq1 is empty: a chord that needs a second one is kept
\* in KeySeq1; else its function is dispatched, that of gide first
KeySeqFirst(kc) ==
    IF KeyFun(kc, "") = "Needs2"
    THEN /\ kt' = [chord |-> kc, processed |-> TRUE, gkf |-> "Nil", kf |-> "Nil",
                   calls |-> <<>>, status |-> <<kc>>, seq |-> KeySeq1]
         /\ KeySeq1' = kc
         /\ UNCHANGED <<pc, Splits, focus, curTab, cp, tested, ctx>>
    ELSE /\ KeySeq1' = KeySeq1
         /\ Dispatch(kc, KeyFun(kc, ""),
                     IF KeyFun(kc, "") # "Nil" THEN "Nil" ELSE GiKeyFun(kc), <<>>)

\* Gide.GideKeys on a key chord event
GideKeys ==
    /\ pc = "idle"
    /\ \E kc \in Chords :
          IF KeySeq1 # "" THEN KeySeqSecond(kc) ELSE KeySeqFirst(kc)
    /\ UNCHANGED progVars

\* Gide.FocusOnPanel: the focus goes to the panel; a text view becomes the
\* active one; a tab view with no current tab is left alone
FocusOnPanel(panel) ==
    CASE panel \in {TextView1Idx, TextView2Idx} ->
            /\ focus' = panel
            /\ ctx' = TextViewByIndex(panel - TextView1Idx)
      [] panel \in {MainTabsIdx, VisTabsIdx} ->
            /\ focus' = IF curTab[panel] THEN panel ELSE focus
            /\ ctx' = ctx
      [] OTHER ->
            /\ focus' = panel
            /\ ctx' = ctx

\* the loop of FocusNextPanel on a collapsed panel: on to the next one
FocusNextPanelLoop ==
    /\ pc = "nextpanel"
    /\ Collapsed(cp)
    /\ cp' = IF cp + 1 >= Cardinality(Panels) THEN 0 ELSE cp + 1
    /\ tested' = tested \cup {cp}
    /\ UNCHANGED <<pc, KeySeq1, kt, Splits, focus, curTab, ctx, progVars>>

\* the loop of FocusPrevPanel on a collapsed panel: on to the one before
FocusPrevPanelLoop ==
    /\ pc = "prevpanel"
    /\ Collapsed(cp)
    /\ cp' = IF cp - 1 < 0 THEN Cardinality(Panels) - 1 ELSE cp - 1
    /\ tested' = tested \cup {cp}
    /\ UNCHANGED <<pc, KeySeq1, kt, Splits, focus, curTab, ctx, progVars>>

\* the loop of either is over at a panel that is not collapsed: FocusOnPanel
FocusPanelEnd ==
    /\ pc \in {"nextpanel", "prevpanel"}
    /\ ~Collapsed(cp)
    /\ FocusOnPanel(cp)
    /\ pc' = "idle"
    /\ UNCHANGED <<KeySeq1, kt, Splits, curTab, cp, tested, progVars>>

(***************************************************************************)
(* SpecKeys: key chords on a window whose panels are open or collapsed;    *)
(* the splits are in thousandths: 0.01 and less is collapsed.               *)
(***************************************************************************)
InitKeys ==
    /\ platform = "linux"
    /\ ArgVarVals = NilMap
    /\ pc = "idle"
    /\ arg = <<>>
    /\ bs = <<>>
    /\ ci = 0
    /\ sz = 0
    /\ gotquote = FALSE
    /\ result = <<>>
    /\ lastTok = NoTok
    /\ ctx = MainView(platform)
    /\ rebuiltTV = NilTV
    /\ cmd = ""
    /\ answer = NoAnswer
    /\ VersCtrl = ""
    /\ notice = ""
    /\ NoneRun
    /\ memo = NoMemo
    /\ KeySeq1 = ""
    /\ kt = NoKey
    /\ cp = 0
    /\ tested = {}
    /\ Splits \in [Panels -> {0, 10, 250}]
    /\ focus \in {-1} \cup Panels
    /\ curTab \in [{MainTabsIdx, VisTabsIdx} -> BOOLEAN]

NextKeys ==
    \/ GideKeys
    \/ FocusNextPanelLoop
    \/ FocusPrevPanelLoop
    \/ FocusPanelEnd

SpecKeys == InitKeys /\ [][NextKeys]_vars


(***************************************************************************)
(* Properties of BindArgVars, checked under SpecExpand.                    *)
(***************************************************************************)
\* the string has neither "{" nor "}" in it
NoDelims(s) == \A i \in 1..Len(s) : s[i] \notin {"{", "}"}

\* the string has the byte in it
HasByte(s, c) == \E i \in 1..Len(s) : s[i] = c

\* C1: after a well-formed token that is an interactive variable or no key of
\* the value map, the scan stands past that token
C1_ScanAdvances ==
    (pc = "loop" /\ lastTok.kind \in {"prompt", "unknown"}) => ci > lastTok.end

\* templates of contextual tokens and plain text only
PlainPieces == {V_FileName, V_FileDir, <<"/">>, <<"a">>}

PlainSeqs == UNION {[1..n -> PlainPieces] : n \in 1..MaxPieces}

\* the pieces with every token replaced by its value
Substituted(ps) ==
    Concat([i \in 1..Len(ps) |->
               IF ps[i] \in DOMAIN ArgVarVals THEN ArgVarVals[ps[i]] ELSE ps[i]])

\* C2: when a template is made of known contextual tokens and plain text, the
\* result is the template with every token replaced by its value and the text
\* between them kept as it is, in order
C2_KnownTokensReplaced ==
    (pc = "done" /\ {V_FileName, V_FileDir} \subseteq DOMAIN ArgVarVals) =>
        \A ps \in PlainSeqs : arg = Concat(ps) => result = Substituted(ps)

\* C3: a template without a delimiter character is returned as it is, under
\* every value map
C3_IdentityWithoutDelimiters ==
    (pc = "done" /\ NoDelims(arg)) => result = arg

\* a template of text with a "/" and no delimiter has been expanded on Windows
\* under a rebuilt map
C3_Witness ==
    /\ pc = "done"
    /\ NoDelims(arg)
    /\ HasByte(arg, "/")
    /\ HasByte(arg, "\\")
    /\ platform = "windows"
    /\ ArgVarVals # NilMap
    /\ result = arg

\* C4: the template "\{literal\}" is returned as "{literal}", under every
\* value map
C4_EscapedRoundTrip ==
    (pc = "done" /\ arg = EscapedLiteral) =>
        result = <<"{", "l", "i", "t", "e", "r", "a", "l", "}">>

\* C5: a call on "{PromptString1}" with no prompt resolved has returned
\* "{PromptString1}" or can still take a step that changes its state
C5_PromptLeftUnchanged ==
    (arg = V_PromptString1 /\ V_PromptString1 \notin DOMAIN ArgVarVals) =>
        \/ pc = "done" /\ result = arg
        \/ ENABLED <<BindArgVars>>_vars

\* C6: when a template starts with a known contextual token, the result
\* starts with that token's value, byte for byte, whatever follows the token
C6_ValueVerbatim ==
    pc = "done" =>
        \A tok \in {V_FileName, V_FileDir} :
            (tok \in DOMAIN ArgVarVals /\ HasPrefix(arg, tok)) =>
                HasPrefix(result, ArgVarVals[tok])

\* C7: when the scan stopped at a "{" with no "}" after it, the result ends
\* with the bytes from that "{" to the end, as they were
C7_UnterminatedSuffixVerbatim ==
    (pc = "done" /\ lastTok.kind = "unterminated") =>
        LET suffix == SliceFrom(bs, lastTok.end)
        IN  /\ Len(result) >= Len(suffix)
            /\ SliceFrom(result, Len(result) - Len(suffix)) = suffix

C9_ClosedVocabulary ==
    (pc = "dialog" \/ (pc = "loop" /\ ~answer.given)) =>
        DOMAIN ArgVarVals = ArgVarSet

\* C10: while a command is expanded, every interactive variable of the map is
\* empty or holds the answer given for this invocation
C10_NoStalePrompt ==
    pc = "loop" =>
        \A k \in PromptVars \cap DOMAIN ArgVarVals :
            \/ ArgVarVals[k] = <<>>
            \/ answer.given /\ ArgVarVals[k] = answer.text

\* every editor-dependent variable is a key of the map, with the empty string
EditorVarsEmpty(m) == \A k \in EditorVars : k \in DOMAIN m /\ m[k] = <<>>

\* C11: a map last rebuilt with no editor, for a file node or with no active
\* view, holds every editor-dependent variable with the empty string
C11_NoEditorEmpty ==
    (ArgVarVals # NilMap /\ rebuiltTV = NilTV) => EditorVarsEmpty(ArgVarVals)

\* a map rebuilt with an editor held a column, and a later rebuild with no
\* editor has emptied the editor-dependent variables
C11_Witness ==
    /\ memo.set
    /\ memo.vals[V_CurCol] # <<>>
    /\ pc = "loop"
    /\ rebuiltTV = NilTV
    /\ EditorVarsEmpty(ArgVarVals)

\* C12: in a map last rebuilt with an editor, {CurLine} is the cursor's line
\* index plus one and {CurCol} is its column index
C12_CursorLineOneBased ==
    rebuiltTV # NilTV =>
        /\ ArgVarVals[V_CurLine] = Itoa(rebuiltTV.CursorPos.Ln + 1)
        /\ ArgVarVals[V_CurCol] = Itoa(rebuiltTV.CursorPos.Ch)

\* nothing is selected in the editor
NoSelection(tv) == tv.SelectReg.Start = tv.SelectReg.End

\* C13: in a map last rebuilt with an editor, the selection variables are the
\* start and the end of the selection, line and column, and the cursor's line
\* and column when nothing is selected
C13_SelectionTokens ==
    rebuiltTV # NilTV =>
        IF NoSelection(rebuiltTV)
        THEN /\ ArgVarVals[V_SelStartLine] = ArgVarVals[V_CurLine]
             /\ ArgVarVals[V_SelEndLine] = ArgVarVals[V_CurLine]
             /\ ArgVarVals[V_SelStartCol] = ArgVarVals[V_CurCol]
             /\ ArgVarVals[V_SelEndCol] = ArgVarVals[V_CurCol]
        ELSE /\ ArgVarVals[V_SelStartLine] = Itoa(rebuiltTV.SelectReg.Start.Ln)
             /\ ArgVarVals[V_SelStartCol] = Itoa(rebuiltTV.SelectReg.Start.Ch)
             /\ ArgVarVals[V_SelEndLine] = Itoa(rebuiltTV.SelectReg.End.Ln)
             /\ ArgVarVals[V_SelEndCol] = Itoa(rebuiltTV.SelectReg.End.Ch)

(***************************************************************************)
(* The command buffers.                                                    *)
(***************************************************************************)
\* C14: FindOrMakeCmdBuf(name, true) on a name that has a buffer returns the
\* buffer the name had before the call, and that buffer is empty right after
\* the call, whatever was appended to it since the call before.
C14_ClearKeepsIdentity ==
    [][(pc = "iter" /\ pc' = "loop" /\ chains[cur].clear /\ cmd' \in DOMAIN CmdBufs)
          => /\ CmdBufs'[cmd'] = CmdBufs[cmd']
             /\ bufs'[CmdBufs[cmd']].text = <<>>
             /\ Len(bufs') = Len(bufs)]_vars

\* a command is run a second time with clearBuf set after its first process
\* has written output, and its buffer, the one of that process, is empty
C14_Witness ==
    /\ pc = "loop"
    /\ cur # 0
    /\ chains[cur].clear
    /\ \E p \in 1..Len(procs) :
          /\ procs[p].name = cmd
          /\ procs[p].out > 0
          /\ procs[p].buf = CmdBufs[cmd]
          /\ bufs[procs[p].buf].text = <<>>

\* the map from names to buffers gives no buffer to two names
OneBufPerName(cb) == \A m, n \in DOMAIN cb : cb[m] = cb[n] => m = n

\* C15: the store keeps one buffer per name: a name keeps the buffer it has,
\* no two names have the same buffer, a request makes a buffer (and says so)
\* exactly when the name has none, a request that does not clear leaves the
\* text of the buffer as it is, and no step takes a name out of the store.
C15_OneBufferPerName ==
    [][/\ \A n \in DOMAIN CmdBufs : n \in DOMAIN CmdBufs' /\ CmdBufs'[n] = CmdBufs[n]
       /\ OneBufPerName(CmdBufs')
       /\ (pc = "iter" /\ pc' = "loop")
             => /\ FindOrMakeCmdBuf(CmdBufs, bufs, cmd', chains[cur].clear).nw
                      = (cmd' \notin DOMAIN CmdBufs)
                /\ (Len(bufs') = Len(bufs) + 1) = (cmd' \notin DOMAIN CmdBufs)
                /\ FindOrMakeCmdBuf(CmdBufs, bufs, cmd', chains[cur].clear).buf
                      = CmdBufs'[cmd']
                /\ (cmd' \in DOMAIN CmdBufs /\ ~chains[cur].clear) => bufs' = bufs]_vars

\* two names have buffers, and a command whose buffer holds output is run
\* again without clearing: the output is still there
C15_Witness ==
    /\ pc = "loop"
    /\ cur # 0
    /\ ~chains[cur].clear
    /\ Cardinality(DOMAIN CmdBufs) >= 2
    /\ \E p \in 1..Len(procs) : procs[p].name = cmd /\ procs[p].buf = CmdBufs[cmd]
    /\ bufs[CmdBufs[cmd]].text # <<>>

(***************************************************************************)
(* The catalog.                                                            *)
(***************************************************************************)
\* the language GideExecCmds filters by
MenuLang(view) == IF ActiveLang(view) = "NoSupport" THEN MainLang ELSE ActiveLang(view)

\* the place of a name in the catalog
CatalogIndex(name) == CHOOSE i \in 1..Len(AvailCmds) : AvailCmds[i].Name = name

\* the names are, in the order of the catalog and each once, those of the
\* commands whose applicability set is empty or holds lang or holds vcs
FilteredBy(r, lang, vcs) ==
    /\ \A i \in 1..Len(r) :
          /\ r[i] \in CmdNames
          /\ \/ CmdByName(r[i]).Langs = {}
             \/ lang \in CmdByName(r[i]).Langs
             \/ vcs \in CmdByName(r[i]).Langs
    /\ \A k \in 1..Len(AvailCmds) :
          (\/ AvailCmds[k].Langs = {}
           \/ lang \in AvailCmds[k].Langs
           \/ vcs \in AvailCmds[k].Langs)
             => \E i \in 1..Len(r) : r[i] = AvailCmds[k].Name
    /\ \A i, j \in 1..Len(r) : i < j => CatalogIndex(r[i]) < CatalogIndex(r[j])

\* C16: the names FilterCmdNames returns, to GideExecCmds and to
\* CommitNoChecks, are in the order of the catalog and each once those of the
\* commands whose applicability set is empty or holds the language or holds
\* the version-control system.
C16_FilterNames ==
    /\ FilteredBy(FilterCmdNames(ActiveLang(ctx), VersCtrl), ActiveLang(ctx), VersCtrl)
    /\ ctx.tv # NilTV => FilteredBy(GideExecCmds(ctx, VersCtrl), MenuLang(ctx), VersCtrl)

\* CommitNoChecks has filtered the catalog for a file that is no Go file in a
\* Git project and has found "Commit"; with Python for main language the
\* names for the file are those of the Git command, of the universal commands
\* and of the Python command, and the Go command is not among them
C16_Witness ==
    /\ pc = "dialog"
    /\ cmd = "Commit"
    /\ ctx.tv # NilTV
    /\ ActiveLang(ctx) = "NoSupport"
    /\ FilterCmdNames(ActiveLang(ctx), VersCtrl)
          = <<"Commit", "Commit All", "Run Prompt", "Open File", "Echo">>
    /\ GideExecCmds(ctx, VersCtrl)
          = <<"Commit", "Commit All", "Run Prompt", "Open File", "Echo", "Awk">>

(***************************************************************************)
(* Commit.                                                                 *)
(***************************************************************************)
\* the name has "Commit" in it
IsCommitName(name) == Contains(NameBytes(name), <<"C", "o", "m", "m", "i", "t">>)

\* C17: the command CommitNoChecks asks a message for is the first name with
\* "Commit" in it of the list filtered for the active language and the
\* version-control system; an error is shown only when the list has no such
\* name, and then nothing else changes: no dialog for the message, the same
\* value map, change log, buffers, tabs, registry and processes.
C17_CommitCommand ==
    [][LET r == FilterCmdNames(ActiveLang(ctx), VersCtrl)
       IN  /\ (pc = "idle" /\ pc' = "dialog")
                 => \E i \in 1..Len(r) :
                       /\ cmd' = r[i]
                       /\ IsCommitName(r[i])
                       /\ \A j \in 1..(i - 1) : ~IsCommitName(r[j])
           /\ (notice' # notice)
                 => /\ notice' = NoCommitCmd
                    /\ \A i \in 1..Len(r) : ~IsCommitName(r[i])
                    /\ pc' = "idle"
                    /\ UNCHANGED <<ArgVarVals, ChangeLog, CmdBufs, bufs, tabs,
                                   RunningCmds, procs, chains, cmd>>]_vars

\* the project has no version-control system and the error has been shown,
\* in a session where commands have run
C17_Witness ==
    /\ notice = NoCommitCmd
    /\ pc = "idle"
    /\ VersCtrl = ""
    /\ procs # <<>>

\* a message is being asked for "Commit", the first of the two commands of a
\* Git project with "Commit" in their names
C17_WitnessFirst ==
    /\ pc = "dialog"
    /\ cmd = "Commit"
    /\ VersCtrl = "Git"
    /\ Len(SelectSeq(FilterCmdNames(ActiveLang(ctx), VersCtrl), IsCommitName)) = 2

(***************************************************************************)
(* The running commands.                                                   *)
(***************************************************************************)
\* C18: once KillByName has been called for a name, as it is when the tab of
\* the name is closed, the registry has no entry under the name, and no entry
\* of the registry is ever that of a process told to terminate, whether the
\* process has terminated or not.
C18_KilledUnregistered ==
    [][/\ \A n \in tabs \ tabs' : EntriesOf(RunningCmds', n) = {}
       /\ \A i \in 1..Len(RunningCmds') : ~procs'[RunningCmds'[i].proc].killed]_vars

\* a process was registered and its tab has been closed: the process has
\* been told to terminate and is still running, and its name is not in the
\* registry
C18_Witness ==
    \E p \in 1..Len(procs) :
       /\ procs[p].killed
       /\ procs[p].state = "running"
       /\ procs[p].name \notin tabs
       /\ EntriesOf(RunningCmds, procs[p].name) = {}

\* C19: the registry never has two entries under one name.
C19_OneEntryPerName ==
    \A i, j \in 1..Len(RunningCmds) :
       RunningCmds[i].name = RunningCmds[j].name => i = j

\* a command has been started again while its earlier process was running
\* and registered: both processes run, and the one entry under the name is
\* that of the later
C19_Witness ==
    \E p, q \in 1..Len(procs) :
       /\ p < q
       /\ procs[p].name = procs[q].name
       /\ procs[p].state = "running"
       /\ procs[q].state = "running"
       /\ procs[p].name \in tabs
       /\ \E i \in 1..Len(RunningCmds) : RunningCmds[i] = [name |-> procs[q].name, proc |-> q]

(***************************************************************************)
(* Chains.                                                                 *)
(***************************************************************************)
\* C20: the processes of a chain are started in the order of its list, and
\* once a later command of the chain has been started, or is being started,
\* no earlier command of the chain with Wait set has a process still running:
\* the later command has no process, hence no output and no entry, before.
C20_WaitOrdersChain ==
    /\ \A p, q \in 1..Len(procs) :
          procs[p].chain = procs[q].chain =>
             /\ procs[p].pos < procs[q].pos => p < q
             /\ (p < q /\ CmdByName(procs[p].name).Wait) => procs[p].state # "running"
    /\ \A p \in 1..Len(procs) :
          (cur = procs[p].chain /\ CmdByName(procs[p].name).Wait)
             => procs[p].state # "running"

\* "Build", which has Wait set, has written output and exited, its buffer is
\* settled, and "Open File", next in its chain, runs
C20_Witness ==
    \E p, q \in 1..Len(procs) :
       /\ procs[p].chain = procs[q].chain
       /\ procs[p].pos + 1 = procs[q].pos
       /\ CmdByName(procs[p].name).Wait
       /\ procs[p].state = "exited"
       /\ procs[p].out > 0
       /\ bufs[procs[p].buf].settled
       /\ procs[q].state = "running"
       /\ \E i \in 1..Len(RunningCmds) : RunningCmds[i].proc = q

(***************************************************************************)
(* The check for unsaved files.                                            *)
(***************************************************************************)
\* the handlers that give their commands to SaveAllCheck
BoundBy == {"Build", "Active", "Chooser", "Commit"}

\* no buffer has lost text
NoneCleared == \A b \in 1..Len(bufs) : Len(bufs'[b].text) >= Len(bufs[b].text)

\* C21: while SaveAllCheck asks for the choice nothing is started: the value
\* map, the buffers of the names and the tabs stay, no buffer is made or
\* cleared, no chain and no process is added and nothing is registered; a
\* chain of a handler that checks is made only by the call of SaveAllCheck,
\* after the check has found no unsaved file or "Save All" or "Don't Save"
\* has been chosen; and on "Cancel Command" the function is dropped with
\* nothing started.
C21_NoStartBeforeChoice ==
    [][/\ pc = "savedlg"
             => /\ UNCHANGED <<ArgVarVals, CmdBufs, tabs, chains, ChangeLog>>
                /\ Len(bufs') = Len(bufs)
                /\ NoneCleared
                /\ Len(procs') = Len(procs)
                /\ \A i \in 1..Len(RunningCmds') :
                      \E j \in 1..Len(RunningCmds) : RunningCmds'[i] = RunningCmds[j]
       /\ (pc = "savedlg" /\ pc' = "idle")
             => /\ fun' = NoFun
                /\ UNCHANGED <<bufs, procs, RunningCmds, nch>>
       /\ \A c \in 1..Len(chains') :
             (c > Len(chains) /\ chains'[c].by \in BoundBy)
                => /\ pc \in {"call", "dialog"}
                   /\ chains'[c].check \in {"clean", "saved", "unsaved"}
                   /\ chains'[c].check = fun.check
                   /\ chains'[c].check \in {"clean", "saved"} => nch = 0
       /\ fun'.check = "clean" => (fun.check = "clean" \/ nch = 0)]_vars

\* files were unsaved, "Save All" was chosen, and a command of a chain that
\* a checking handler started after it runs
C21_Witness ==
    \E p \in 1..Len(procs) :
       /\ procs[p].state = "running"
       /\ chains[procs[p].chain].by \in BoundBy
       /\ chains[procs[p].chain].check = "saved"
       /\ nch = 0

\* C22: every chain of Build, of Run and of Commit is started behind the
\* check for unsaved files.
C22_ChainsChecked ==
    \A c \in 1..Len(chains) :
       chains[c].by \in {"Build", "Run", "Commit"} => chains[c].check # "unchecked"

\* the control thread is about to call the function SaveAllCheck was given
CallEnabled ==
    \/ fun.kind = "ExecCmds"
    \/ fun.kind = "CommitNoChecks"
    \/ fun.kind = "nil"

\* C23: SaveAllCheck goes on to call its function only at once when no file
\* is unsaved, after "Don't Save" with nothing saved, or after "Save All"
\* when the loop over the changed files is over and none is left unsaved; the
\* call is made once, of the function given; after "Cancel Command" the
\* function is dropped and not called.
C23_FunCalledOnce ==
    [][/\ (pc' = "call" /\ pc # "call")
             => \/ pc = "idle" /\ nch = 0 /\ fun'.check = "clean"
                \/ pc = "savedlg" /\ nch > 0 /\ nch' = nch /\ fun'.check = "unsaved"
                \/ pc = "saving" /\ nch = 0 /\ fun.check = "saved" /\ fun' = fun
       /\ pc = "call"
             => /\ CallEnabled
                /\ pc' # "call"
                /\ fun.kind = "ExecCmds"
                      => /\ Len(chains') = Len(chains) + 1
                         /\ chains'[Len(chains')].names = fun.names
                         /\ chains'[Len(chains')].by = fun.by
                /\ fun.kind # "ExecCmds" => chains' = chains
                /\ fun.kind # "CommitNoChecks" => fun' = NoFun
       /\ (pc = "savedlg" /\ pc' \notin {"savedlg", "call", "saving"})
             => /\ fun.cancelOpt
                /\ fun' = NoFun
                /\ pc' = "idle"
                /\ UNCHANGED <<chains, nch, ArgVarVals>>
       /\ (pc = "savedlg" /\ pc' = "saving") => fun'.check = "saved"
       /\ (pc = "saving" /\ pc' = "saving") => nch' < nch]_vars

\* files were unsaved and "Save All" was chosen: the files are saved, the
\* post-save commands have been run on them and the function is about to be
\* called
C23_Witness ==
    /\ pc = "call"
    /\ fun.check = "saved"
    /\ fun.kind = "ExecCmds"
    /\ nch = 0
    /\ \E c \in 1..Len(chains) : chains[c].by = "PostSave" /\ chains[c].names = <<>>

\* the pieces of a buffer text
Pieces(text) == {text[i] : i \in 1..Len(text)}

\* the processes of the registry
Registered(reg) == {reg[i].proc : i \in 1..Len(reg)}

\* the processes that exit in a step
Exiting ==
    {p \in 1..Len(procs) : procs[p].state = "running" /\ procs'[p].state = "exited"}

\* C24: when the process of a command exits, no entry of the registry refers
\* to it any more, its buffer is settled and holds the same text as before the
\* exit, and no other buffer changes; an exited process is never registered
C24_ExitUnregisters ==
    [][/\ \A p \in Exiting :
            /\ p \notin Registered(RunningCmds')
            /\ bufs'[procs[p].buf].settled
            /\ bufs'[procs[p].buf].text = bufs[procs[p].buf].text
            /\ \A b \in 1..Len(bufs) : bufs'[b].text = bufs[b].text
            /\ Len(bufs') = Len(bufs)
       /\ \A p \in 1..Len(procs') :
            procs'[p].state = "exited" => p \notin Registered(RunningCmds')]_vars

\* a registered process has written its output and exited: it is unregistered
\* and its settled buffer holds the output
C24_Witness ==
    \E p \in 1..Len(procs) :
        /\ procs[p].state = "exited"
        /\ ~procs[p].killed
        /\ procs[p].out > 0
        /\ p \notin Registered(RunningCmds)
        /\ bufs[procs[p].buf].settled
        /\ Chunk(p, 1) \in Pieces(bufs[procs[p].buf].text)

\* the pieces of the buffers that a process has put there
PiecesOf(store, p) ==
    {x \in UNION {Pieces(store[b].text) : b \in 1..Len(store)} : x.proc = p}

\* C25: when the program of a command cannot be launched, the error text is
\* appended to the buffer of the command and is all the run ever puts in a
\* buffer, the run is over (failed) with its buffer settled and was never
\* registered, the registry, the value map, the tabs, the buffer store and the
\* change log are as they were, and the chain goes on with its next name
C25_LaunchFailure ==
    [][/\ (Len(procs') > Len(procs) /\ procs'[Len(procs')].state = "failed") =>
            /\ bufs' = [bufs EXCEPT ![CmdBufs[cmd]].text =
                                        Append(@, LaunchError(Len(procs'))),
                                    ![CmdBufs[cmd]].settled = TRUE]
            /\ UNCHANGED <<RunningCmds, ArgVarVals, tabs, CmdBufs, ChangeLog,
                           saveVars, cur>>
            /\ SubSeq(procs', 1, Len(procs)) = procs
            /\ chains' = [chains EXCEPT ![cur].names = Tail(@),
                                        ![cur].pos = @ + 1, ![cur].wait = 0]
            /\ pc' = "iter"
       /\ \A p \in 1..Len(procs') :
            procs'[p].state = "failed" =>
                /\ p > Len(procs) \/ procs[p].state = "failed"
                /\ p \notin Registered(RunningCmds')
                /\ procs'[p].out = 0
                /\ PiecesOf(bufs', p) \subseteq {LaunchError(p)}]_vars

\* the launch of a command of a chain has failed, its error text is alone in its
\* buffer, and the next command of the chain has been started
C25_Witness ==
    \E p, q \in 1..Len(procs) :
        /\ procs[p].state = "failed"
        /\ bufs[procs[p].buf].text = <<LaunchError(p)>>
        /\ bufs[procs[p].buf].settled
        /\ procs[q].chain = procs[p].chain
        /\ procs[q].pos > procs[p].pos
        /\ procs[q].state = "running"
        /\ q \in Registered(RunningCmds)

\* C26: when ExecCmdName or ExecCmdNameFileNode is called with a name that is
\* not in the catalog, the value map, the buffers (none made, none cleared),
\* the tabs, the registry, the processes, the command history and the change
\* log are left as they are: only the loop of the chain moves on
C26_UnknownNameNoEffect ==
    [][(/\ pc = "iter"
        /\ chains[cur].names # <<>>
        /\ Head(chains[cur].names) \notin CmdNames) =>
            /\ UNCHANGED <<ArgVarVals, rebuiltTV, CmdBufs, bufs, tabs,
                           RunningCmds, procs, CmdHistory, ChangeLog, nch, fun>>
            /\ chains' = [chains EXCEPT ![cur].names = Tail(@),
                                        ![cur].pos = @ + 1, ![cur].wait = 0]]_vars

\* "Lint", which is not in the catalog, was the first name of a chain of
\* post-save commands on a file node that has gone past it: there is no
\* tab, no process and no place in the history for it
C26_Witness ==
    /\ pc = "iter"
    /\ chains[cur].fn
    /\ chains[cur].pos = 1
    /\ chains[cur].names = <<"Open File">>
    /\ "Lint" \notin tabs
    /\ \A p \in 1..Len(procs) : procs[p].name # "Lint"
    /\ \A i \in 1..Len(CmdHistory) : CmdHistory[i] # "Lint"
    /\ "Lint" \notin DOMAIN CmdBufs

\* the entries of the registry
Entries(reg) == {reg[i] : i \in 1..Len(reg)}

\* the names whose tab is closed in a step
ClosedTabs == tabs \ tabs'

Suspended ==
    {c \in 1..Len(chains) :
        chains[c].wait # 0 /\ procs[chains[c].wait].state = "running"}

\* a chain can be started: there is room for one more chain of one name
RoomForChain ==
    Len(chains) < MaxChains /\ Len(procs) + Pending(chains) + 1 <= MaxProcs

OutputOf(text, p) == SelectSeq(text, LAMBDA x : x.proc = p /\ x.k > 0)

\* the pieces of the stream of a process from the j-th to the last one
\* received
StreamFrom(p, j) == [i \in 1..(procs[p].out - j + 1) |-> Chunk(p, j + i - 1)]

\* the buffer of a process may have been cleared since the process was
\* started: its command has been executed again
ClearedSince(p) ==
    \/ \E r \in (p + 1)..Len(procs) : procs[r].name = procs[p].name
    \/ pc \in {"loop", "done"} /\ cmd = procs[p].name

IsPrefix(s, t) == Len(s) <= Len(t) /\ SubSeq(t, 1, Len(s)) = s

\* C30: the step that closes a tab and kills the command of its name leaves
\* every buffer as it is, and the buffer store too; after the kill the text
\* of the buffer is only added to, until the command is executed again with
\* clearBuf
C30_KillKeepsOutput ==
    [][/\ tabs' # tabs /\ tabs' \subseteq tabs => UNCHANGED <<bufs, CmdBufs>>
       /\ \A p \in 1..Len(procs) :
            procs'[p].killed =>
                \/ IsPrefix(bufs[procs[p].buf].text, bufs'[procs[p].buf].text)
                \/ /\ pc = "iter"
                   /\ chains[cur].names # <<>>
                   /\ Head(chains[cur].names) = procs[p].name
                   /\ chains[cur].clear]_vars

\* the tab of a running command that has written output was closed: the
\* command was killed and unregistered, and its output is in its buffer
C30_Witness ==
    \E p \in 1..Len(procs) :
        /\ procs[p].killed
        /\ procs[p].state = "running"
        /\ procs[p].out > 0
        /\ procs[p].name \notin tabs
        /\ p \notin Registered(RunningCmds)
        /\ OutputOf(bufs[procs[p].buf].text, p) = StreamFrom(p, 1)

(***************************************************************************)
(* The post-save commands.                                                 *)
(***************************************************************************)
\* C31: RunPostCmdsFileNode reverts the buffer of the file only when the
\* post-save commands that were run on it have run to completion: when the
\* buffer is read from the disk again no process of these commands runs
C31_RevertAfterCommands ==
    \A c \in 1..Len(chains) :
        /\ chains[c].revert # "none" => chains[c].fn /\ chains[c].names = <<>>
        /\ chains[c].revert # "early"

(***************************************************************************)
(* The commit flow.                                                        *)
(***************************************************************************)
\* C32: while the arguments of the Commit command are expanded after the
\* commit dialog was accepted with a message, the map has been rebuilt for
\* the active view by ExecCmdName and {PromptString1} is still bound to that
\* message
C32_PromptSurvivesRebuild ==
    (pc \in {"loop", "done"} /\ answer.given) =>
        /\ IsCommitName(cmd)
        /\ chains[cur].by = "Commit"
        /\ rebuiltTV = ctx.tv
        /\ ArgVarVals \in Rebuilt(ArgVarVals)
        /\ V_PromptString1 \in DOMAIN ArgVarVals
        /\ ArgVarVals[V_PromptString1] = answer.text

\* the commit dialog was accepted behind the save check, and the expansion of
\* "Commit" stands at its {PromptString1} with the message bound
C32_Witness ==
    /\ pc = "loop"
    /\ answer.given
    /\ cmd = "Commit"
    /\ chains[cur].check \in {"clean", "saved", "unsaved"}
    /\ lastTok.kind = "prompt"
    /\ ArgVarVals[V_PromptString1] = answer.text
    /\ answer.text \in Messages

\* the chains that are the Commit command executed by the commit dialog
CommitChains(cs) == {c \in 1..Len(cs) : cs[c].by = "Commit"}

\* C33: a record is added to the change log only by the step that accepts the
\* commit dialog, which adds one record with the message entered, writes the
\* message into the map and executes the Commit command; the step that
\* dismisses the dialog adds no record, writes no value and executes no
\* command; there are as many records as Commit commands executed
C33_LogIffAccepted ==
    [][/\ (ChangeLog' # ChangeLog \/ CommitChains(chains') # CommitChains(chains)) =>
            /\ pc = "dialog" /\ pc' = "loop"
            /\ \E msg \in Messages :
                  /\ ChangeLog' = Append(ChangeLog, msg)
                  /\ answer' = Answer(msg)
                  /\ ArgVarVals'[V_PromptString1] = msg
            /\ chains' = Append(chains, chains'[Len(chains')])
            /\ chains'[Len(chains')].by = "Commit"
            /\ chains'[Len(chains')].names = <<cmd>>
            /\ cur' = Len(chains')
            /\ cmd' = cmd
            /\ cmd \in tabs'
       /\ (pc = "dialog" /\ pc' # "dialog" /\ ChangeLog' = ChangeLog) =>
            /\ pc' = "idle"
            /\ UNCHANGED <<ArgVarVals, answer, chains, cur, procs, CmdBufs,
                           bufs, tabs, RunningCmds>>
       /\ Len(ChangeLog') = Cardinality(CommitChains(chains'))]_vars

\* the commit dialog was accepted once: the change log has the one record
\* with the message, and "Commit" is being executed in its tab
C33_Witness ==
    /\ Len(ChangeLog) = 1
    /\ ChangeLog[1] \in Messages
    /\ Cardinality(CommitChains(chains)) = 1
    /\ "Commit" \in tabs
    /\ "Commit" \in DOMAIN CmdBufs
    /\ VersCtrl = "Git"

(***************************************************************************)
(* Build, Run and Commit with nothing to run.                              *)
(***************************************************************************)
\* what Build, Run and Commit report when there is nothing to run
NothingSet == {"No BuildCmds Set", "No RunCmds Set", "No VersCtrl Set"}

\* C34: the step in which Build reports an empty BuildCmds, Run an empty
\* RunCmds or Commit a project without version-control system changes
\* nothing else: no save check is made, the map is not rebuilt, no buffer
\* is made or cleared, no tab, chain or process is started; and no check or
\* chain is ever made for an empty list of Build or Run, or for Commit
\* without a version-control system
C34_NothingToRun ==
    [][/\ (notice' # notice /\ notice' \in NothingSet) =>
            /\ pc = "idle"
            /\ notice' = "No VersCtrl Set" => VersCtrl = ""
            /\ UNCHANGED <<pc, fun, nch, ArgVarVals, rebuiltTV, CmdBufs, bufs,
                           tabs, RunningCmds, procs, chains, cur, ChangeLog,
                           CmdHistory, cmd>>
       /\ fun'.by \in {"Build", "Run"} => fun'.names # <<>>
       /\ fun'.by = "Commit" => VersCtrl' # ""
       /\ \A c \in 1..Len(chains') :
            /\ chains'[c].by \in {"Build", "Run"} =>
                    chains'[c].pos + Len(chains'[c].names) > 0
            /\ chains'[c].by = "Commit" => VersCtrl' # ""]_vars

\* Commit has reported that no version-control system is set, while a file
\* is unsaved: no check was asked for, nothing was run
C34_Witness ==
    /\ notice = "No VersCtrl Set"
    /\ VersCtrl = ""
    /\ nch > 0
    /\ pc = "idle"
    /\ fun = NoFun
    /\ chains = <<>>
    /\ procs = <<>>
    /\ ArgVarVals = NilMap

(***************************************************************************)
(* Names that are not in the catalog.                                      *)
(***************************************************************************)
\* the processes started for the k-th name of a chain
ProcsAt(c, k) ==
    {p \in 1..Len(procs) : procs[p].chain = c /\ procs[p].pos = k}

\* C35: in a chain of ExecCmds the names still to run are the rest of the
\* list; of the names done with, each name of the catalog was executed, with
\* one process of that name started at its place in the list, and each name
\* that is not in the catalog was skipped, with no process, buffer or tab;
\* the processes of a chain were started in the order of the list, and a
\* chain with names left to run is being run or waits for a process
C35_UnknownNameSkipped ==
    \A c \in 1..Len(chains) :
        /\ chains[c].names =
              SubSeq(chains[c].list, chains[c].pos + 1, Len(chains[c].list))
        /\ \A k \in 1..chains[c].pos :
              IF chains[c].list[k] \in CmdNames
              THEN /\ Cardinality(ProcsAt(c, k)) = 1
                   /\ \A p \in ProcsAt(c, k) : procs[p].name = chains[c].list[k]
              ELSE /\ ProcsAt(c, k) = {}
                   /\ chains[c].list[k] \notin tabs
                   /\ chains[c].list[k] \notin DOMAIN CmdBufs
        /\ \A p, q \in 1..Len(procs) :
              (procs[p].chain = c /\ procs[q].chain = c /\ procs[p].pos < procs[q].pos)
                  => p < q
        /\ chains[c].names # <<>> => (cur = c \/ chains[c].wait # 0)

\* "Lint", which is not in the catalog, was skipped and "Echo", after it in
\* the list, was executed: its process is the only one of the chain
C35_Witness ==
    \E c \in 1..Len(chains) :
        /\ chains[c].list = <<"Lint", "Echo">>
        /\ chains[c].names = <<>>
        /\ ProcsAt(c, 1) = {}
        /\ \E p \in ProcsAt(c, 2) :
              /\ procs[p].name = "Echo"
              /\ procs[p].state = "running"
              /\ p \in Registered(RunningCmds)
        /\ "Lint" \notin tabs
        /\ "Echo" \in tabs

\* the function SaveAllCheck holds, or a chain already started, executes the
\* name on behalf of the command chooser
ChooserRuns(name) ==
    \/ fun.by = "Chooser" /\ fun.names = <<name>>
    \/ \E c \in 1..Len(chains) :
          chains[c].by = "Chooser" /\ chains[c].list = <<name>>

\* C38: the command history holds only commands executed via the command
\* chooser: every name in CmdHistory is being executed, or was executed, for
\* the chooser; a command picked and then cancelled at the unsaved-files
\* prompt is not in it, and Build, Run, Commit and post-save chains add none
C38_HistoryOnlyExecuted ==
    \A i \in 1..Len(CmdHistory) : ChooserRuns(CmdHistory[i])

(***************************************************************************)
(* Key chords and panels, checked under SpecKeys.                          *)
(***************************************************************************)
\* the last key event came while a first chord was awaited
CameSecond == kt.seq # ""

C37_AbortOrPairFunction ==
    CameSecond =>
        IF kt.chord = "Escape" \/ <<kt.seq, kt.chord>> \notin DOMAIN ActiveKeyMap
        THEN /\ kt.processed
             /\ kt.calls = <<>>
             /\ kt.kf = "Nil"
             /\ kt.gkf = "Nil"
             /\ pc = "idle"
        ELSE /\ kt.kf = ActiveKeyMap[<<kt.seq, kt.chord>>]
             /\ kt.calls = KeyCases[kt.kf]
             /\ kt.gkf = "Nil"
             /\ kt.processed

\* "Control+X" then "Control+F": the pair is bound to FileOpen, and
\* "Control+F" alone is Find in the toolkit; ViewFile was called, Find was not
C37_Witness ==
    /\ kt.seq = "Control+X"
    /\ kt.chord = "Control+F"
    /\ GiKeyFun(kt.chord) = "Find"
    /\ kt.calls = <<"ViewFile">>

\* C39: FocusNextPanel and FocusPrevPanel terminate for every configuration
\* of the splitter: their loop, which tests the same splits at each turn,
\* never comes to a panel that it has found collapsed before
C39_PanelLoopTerminates ==
    pc \in {"nextpanel", "prevpanel"} => cp \notin tested

====
